---- MODULE Spec2Model ----
(***************************************************************************)
(* Model of the AIOS memory-layer embeddings package:                      *)
(*   model-loader.ts  lazy singleton pipeline (getEmbeddingPipeline,       *)
(*                    unloadModel)                                         *)
(*   generator.ts     generateEmbedding / generateEmbeddings               *)
(*   cache.ts         SQLite embedding cache and the cached generator      *)
(*                    (generateEmbeddingCached / generateEmbeddingsCached) *)
(*                                                                         *)
(* JavaScript runs one task at a time: the code between two awaits is one  *)
(* atomic step.  Every action below is such a step of one call.            *)
(***************************************************************************)
EXTENDS Integers, Sequences, FiniteSets, TLC

(***************************************************************************)
(* Bounds of the model.                                                    *)
(***************************************************************************)
\* number of concurrent callers (logical tasks)
NumProcs == 3
\* number of pipeline() constructions a behaviour may start
MaxInits == 3

Procs == 1..NumProcs

(***************************************************************************)
(* Texts, numbers and vectors                                              *)
(*                                                                         *)
(* A text is a tuple of character codes.  A number is an integer counting  *)
(* units of 1/Scale; the numbers a Float32Array can hold are the multiples *)
(* of F32Step, so that writing a number into a Float32Array rounds it.     *)
(***************************************************************************)
\* length of an embedding, scaled down from MODEL_DIMENSIONS = 384 (model-loader.ts:25)
MODEL_DIMENSIONS == 2
\* length of the longest list of texts passed to generateEmbeddingsCached
MaxItems == 3

MODEL_NAME == "Xenova/all-MiniLM-L6-v2"
Scale == 4000
F32Step == 4
Whitespace == {9, 10, 13, 32}
Texts == {<<>>, <<32>>, <<97, 98>>, <<98, 97>>}

\* !text || text.trim().length === 0
IsBlank(text) == \A k \in 1..Len(text) : text[k] \in Whitespace

\* new Array(MODEL_DIMENSIONS).fill(0)
ZeroVector == [k \in 1..MODEL_DIMENSIONS |-> 0]

\* new Float32Array(v): every element rounded to the nearest float32
ToFloat32(x) == ((2 * x + F32Step) \div (2 * F32Step)) * F32Step
Float32Array(v) == [k \in 1..Len(v) |-> ToFloat32(v[k])]

\* The inference model, as the test double computes it:
\* data[i] = (text.charCodeAt(i % max(text.length, 1)) || i) / 1000, a Float32Array.
PipelineData(text) ==
    [k \in 1..MODEL_DIMENSIONS |->
        IF Len(text) = 0 THEN F32Step * (k - 1)
        ELSE F32Step * text[((k - 1) % Len(text)) + 1]]

RECURSIVE SumSquares(_, _)
SumSquares(v, n) == IF n = 0 THEN 0 ELSE v[n] * v[n] + SumSquares(v, n - 1)

\* Math.sqrt, rounded down to a unit: the largest r in lo..hi with r * r <= x
RECURSIVE SqrtBetween(_, _, _)
SqrtBetween(x, lo, hi) ==
    IF lo = hi THEN lo
    ELSE LET mid == (lo + hi + 1) \div 2
         IN  IF mid <= x \div mid THEN SqrtBetween(x, mid, hi) ELSE SqrtBetween(x, lo, mid - 1)
Sqrt(x) == SqrtBetween(x, 0, x)

\* normalizeVector: generator.ts lines 21-27
normalizeVector(vector) ==
    LET magnitude == Sqrt(SumSquares(vector, Len(vector)))
    IN  IF magnitude = 0
        THEN vector
        ELSE [k \in 1..Len(vector) |-> (vector[k] * Scale) \div magnitude]

\* What generateEmbedding / generateEmbeddings produce for one text once the
\* pipeline has returned its data: Array.from(result.data), then normalization.
FromInference(data, normalize) == IF normalize THEN normalizeVector(data) ELSE data

\* IEEE 754 double precision holds 53 significant binary digits, here as three
\* limbs of 13, 20 and 20 digits.
TopLimb == 2^13
Limb == 2^20

\* r/n scaled by 2^z into [1/2, 1): the scaled numerator and z.
RECURSIVE ScaleUp(_, _, _)
ScaleUp(r, n, z) == IF 2 * r >= n THEN [r |-> r, z |-> z] ELSE ScaleUp(2 * r, n, z + 1)

\* Math.round((current / total) * 100) for 0 < current <= total, in double
\* arithmetic: the quotient is rounded to 53 digits (to nearest, ties to
\* even), so is its product with 100, and Math.round takes the product to the
\* nearest integer, a half up.
Percentage(current, total) ==
    IF current = total THEN 100
    ELSE LET sc == ScaleUp(current, total, 0)
             \* the first 53 digits of the quotient, and what is left
             d1 == (sc.r * TopLimb) \div total
             r1 == (sc.r * TopLimb) % total
             d2 == (r1 * Limb) \div total
             r2 == (r1 * Limb) % total
             d3 == (r2 * Limb) \div total
             r3 == (r2 * Limb) % total
             up == 2 * r3 > total \/ (2 * r3 = total /\ d3 % 2 = 1)
             m3 == IF up THEN (d3 + 1) % Limb ELSE d3
             m2 == IF up /\ d3 + 1 = Limb THEN (d2 + 1) % Limb ELSE d2
             m1 == IF up /\ d3 + 1 = Limb /\ d2 + 1 = Limb THEN d1 + 1 ELSE d1
             \* times 100: 59 or 60 digits
             q3 == m3 * 100
             q2 == m2 * 100 + q3 \div Limb
             p1 == m1 * 100 + q2 \div Limb
             p2 == q2 % Limb
             p3 == q3 % Limb
             \* rounded to 53 digits: the top limb of the product
             drop == IF p1 >= Limb \div 2 THEN 2^7 ELSE 2^6
             low == p3 % drop
             upP == 2 * low > drop \/ (2 * low = drop /\ (p3 \div drop) % 2 = 1)
             p1r == IF upP /\ p3 - low + drop = Limb /\ p2 + 1 = Limb THEN p1 + 1 ELSE p1
             \* the product is (p1r * 2^40 + ...) / 2^(53 + z): twice it, rounded down
             twice == p1r \div 2^(12 + sc.z)
         IN  (twice \div 2) + (twice % 2)

\* BatchProgress reporting globalIndex instead of globalIndex + 1.
BatchProgress_ZeroBased(current, total) ==
    [current |-> current - 1, total |-> total, percentage |-> Percentage(current, total)]

\* The argument of onProgress, lines 125-129.
BatchProgress(current, total) ==
    [current |-> current, total |-> total, percentage |-> Percentage(current, total)]

\* Array.prototype.slice(start, end) on a 0-based array held as a 1-based sequence
SliceIndex(n, k) == IF k < 0 THEN (IF n + k < 0 THEN 0 ELSE n + k) ELSE (IF k > n THEN n ELSE k)
Slice(arr, start, end) ==
    LET from == SliceIndex(Len(arr), start)
        to == SliceIndex(Len(arr), end)
    IN  IF to <= from THEN <<>> ELSE SubSeq(arr, from + 1, to)

\* arr[index] = value on a JavaScript array (0-based index): the array grows and
\* the slots skipped over are holes.
Hole == <<"hole">>
ArraySet(arr, index, value) ==
    [k \in 1..(IF index + 1 > Len(arr) THEN index + 1 ELSE Len(arr)) |->
        IF k = index + 1 THEN value ELSE IF k <= Len(arr) THEN arr[k] ELSE Hole]

(***************************************************************************)
(* cache.ts: the table aios_embedding_cache and the statistics             *)
(***************************************************************************)
\* crypto.createHash('sha256').update(content).digest('hex'): a digest that
\* differs for different contents; here the base-256 numeral of the text.
RECURSIVE hashContent(_)
hashContent(content) ==
    IF content = <<>> THEN 1
    ELSE 256 * hashContent(SubSeq(content, 1, Len(content) - 1)) + content[Len(content)]

\* The row getCachedEmbedding selects: WHERE content_hash = ? AND model_version = ?
SelectRow(tbl, content) ==
    {r \in tbl : r.content_hash = hashContent(content) /\ r.model_version = MODEL_NAME}

\* new Float32Array(row.embedding.buffer, row.embedding.byteOffset, row.dimensions)
DecodeRow(row) == SubSeq(row.embedding, 1, row.dimensions)

\* InsertOrReplace as INSERT OR IGNORE: a row holding the content_hash stays.
InsertOrReplace_Ignore(tbl, content, embedding) ==
    IF \E r \in tbl : r.content_hash = hashContent(content)
    THEN tbl
    ELSE tbl \cup {[content_hash |-> hashContent(content),
                    embedding |-> Float32Array(embedding),
                    model_version |-> MODEL_NAME,
                    dimensions |-> MODEL_DIMENSIONS]}

\* INSERT OR REPLACE: content_hash is the primary key, the row holding it goes.
InsertOrReplace(tbl, content, embedding) ==
    {r \in tbl : r.content_hash # hashContent(content)}
        \cup {[content_hash |-> hashContent(content),
               embedding |-> Float32Array(embedding),
               model_version |-> MODEL_NAME,
               dimensions |-> MODEL_DIMENSIONS]}

(***************************************************************************)
(* State                                                                   *)
(***************************************************************************)
VARIABLES
    embeddingPipeline,  \* the singleton: NoHandle, or the id of the pipeline object held
    isLoading,          \* the loading flag
    loadError,          \* NoError, or the id of the stored Error object
    table,              \* the rows of aios_embedding_cache in the database the caller uses
    table2,             \* the rows of aios_embedding_cache in a second database
    cacheHits,          \* in-memory statistics
    cacheMisses,
    pc,                 \* pc[p]: where caller p is suspended ("idle" when it has no call)
    kind,               \* kind[p]: the exported function caller p called last
    args,               \* args[p]: the arguments of that call
    frame,              \* frame[p]: the local variables of the call in progress
    initOf,             \* initOf[p]: the pipeline() construction caller p awaits (0: none)
    ret,                \* ret[p]: how caller p's last settled call ended
    events,             \* events[p]: the progress events the call's onProgress received
    probes,             \* history: probes[p][i] is what the cache probe of texts[i] found
    nextInit,           \* id of the next pipeline() construction; ids name the objects made
    lifetimeInits,      \* history: constructions started since the last unloadModel()
    failedInLifetime,   \* history: a construction has failed since the last unloadModel()
    freshUnload,        \* history: unloadModel() ran and no getEmbeddingPipeline() since
    settledInLifetime,  \* history: handles returned to callers since the last unloadModel()
    inferences,         \* history: inferences[t] counts the pipeline(t, ...) calls made so far
    calls,              \* history: calls of the cached generator made so far
    lookups,            \* history: getCachedEmbedding() calls since the counters were last reset
    opLog               \* history: the latest direct calls of the cache functions, oldest first

loaderVars == <<embeddingPipeline, isLoading, loadError>>
cacheVars == <<table, table2, cacheHits, cacheMisses>>
callVars == <<args, frame, events, probes>>
vars == <<embeddingPipeline, isLoading, loadError, table, table2, cacheHits, cacheMisses,
          pc, kind, args, frame, initOf, ret, events, probes,
          nextInit, lifetimeInits, failedInLifetime, freshUnload, settledInLifetime,
          inferences, calls, lookups, opLog>>
historyVars == <<inferences, calls, lookups, opLog>>

NoHandle == 0
NoError == 0
NoRet == [status |-> "none", val |-> 0]
HandleRet(h) == [status |-> "handle", val |-> h]
ErrorRet(e) == [status |-> "error", val |-> e]
VectorRet(v) == [status |-> "vector", val |-> v]
VectorsRet(vs) == [status |-> "vectors", val |-> vs]

\* the Error an inference call rejects with
InferenceError == -1

\* options.batchSize: <<>> when the caller leaves it out, <<n>> otherwise
Undefined == <<>>
DefaultBatchSize == 32
\* onModelLoad, the observer handed to getEmbeddingPipeline: whether there is
\* one, and the statuses on whose notification it throws.
NoObserver == [present |-> FALSE, throwsAt |-> {}]
NoArgs == [texts |-> <<>>, useCache |-> FALSE, normalize |-> FALSE,
           batchSize |-> Undefined, onProgress |-> FALSE, onModelLoad |-> NoObserver]
\* results, textsToGenerate of generateEmbeddingsCached; results, i, j of generateEmbeddings
NoFrame == [results |-> <<>>, textsToGenerate |-> <<>>, generated |-> <<>>, i |-> 0, j |-> 0]

InitLoader ==
    /\ embeddingPipeline = NoHandle
    /\ isLoading = FALSE
    /\ loadError = NoError
    /\ table2 = {}
    /\ cacheHits = 0
    /\ cacheMisses = 0
    /\ pc = [p \in Procs |-> "idle"]
    /\ kind = [p \in Procs |-> "none"]
    /\ args = [p \in Procs |-> NoArgs]
    /\ frame = [p \in Procs |-> NoFrame]
    /\ initOf = [p \in Procs |-> 0]
    /\ ret = [p \in Procs |-> NoRet]
    /\ events = [p \in Procs |-> <<>>]
    /\ probes = [p \in Procs |-> <<>>]
    /\ nextInit = 1
    /\ lifetimeInits = 0
    /\ failedInLifetime = FALSE
    /\ freshUnload = FALSE
    /\ settledInLifetime = {}
    /\ inferences = [t \in Texts |-> 0]
    /\ calls = 0
    /\ lookups = 0
    /\ opLog = <<>>

\* A fresh process on an empty table.
Init == InitLoader /\ table = {}

(***************************************************************************)
(* model-loader.ts                                                         *)
(***************************************************************************)
\* A call spinning in a loop that never ends keeps the one thread: nothing else runs.
Blocked == \E q \in Procs : pc[q] = "hung"

\* getEmbeddingPipeline() hands outcome out (a handle or the stored error) to
\* caller p, who called it from function k: getEmbeddingPipeline's own caller
\* has its result; generateEmbedding(s) goes on with the handle, and an error
\* rejects the whole call.
Deliver(p, k, out) ==
    /\ initOf' = [initOf EXCEPT ![p] = 0]
    /\ settledInLifetime' = IF out.status = "handle"
                            THEN settledInLifetime \cup {out.val}
                            ELSE settledInLifetime
    /\ IF k = "getEmbeddingPipeline" \/ out.status = "error"
       THEN /\ pc' = [pc EXCEPT ![p] = "idle"]
            /\ ret' = [ret EXCEPT ![p] = out]
       ELSE /\ pc' = [pc EXCEPT ![p] = "gotPipeline"]
            /\ ret' = ret

\* getEmbeddingPipeline() called by p from function k, from the call to its
\* first suspension or return: lines 68-116.
Acquire(p, k) ==
    /\ freshUnload' = FALSE
    /\ IF embeddingPipeline # NoHandle
       THEN \* return cached instance
            /\ Deliver(p, k, HandleRet(embeddingPipeline))
            /\ UNCHANGED <<loaderVars, nextInit, lifetimeInits, failedInLifetime>>
       ELSE IF loadError # NoError
       THEN \* throw loadError
            /\ Deliver(p, k, ErrorRet(loadError))
            /\ UNCHANGED <<loaderVars, nextInit, lifetimeInits, failedInLifetime>>
       ELSE IF isLoading
       THEN \* new Promise around setInterval(..., 100)
            /\ pc' = [pc EXCEPT ![p] = "waiting"]
            /\ UNCHANGED <<loaderVars, initOf, ret, nextInit, lifetimeInits,
                           failedInLifetime, settledInLifetime>>
       ELSE \* isLoading = true; await pipeline('feature-extraction', ...)
            /\ nextInit <= MaxInits
            /\ isLoading' = TRUE
            /\ pc' = [pc EXCEPT ![p] = "loading"]
            /\ initOf' = [initOf EXCEPT ![p] = nextInit]
            /\ nextInit' = nextInit + 1
            /\ lifetimeInits' = lifetimeInits + 1
            /\ UNCHANGED <<embeddingPipeline, loadError, ret, failedInLifetime,
                           settledInLifetime>>

\* The locals of a call that has ended are gone.
FrameAfter(p, fr) == IF pc'[p] = "idle" THEN [frame EXCEPT ![p] = NoFrame] ELSE fr

\* A direct call of getEmbeddingPipeline() by caller p.
GetEmbeddingPipeline(p) ==
    /\ pc[p] = "idle"
    /\ ~Blocked
    /\ kind' = [kind EXCEPT ![p] = "getEmbeddingPipeline"]
    /\ Acquire(p, "getEmbeddingPipeline")
    /\ UNCHANGED <<cacheVars, callVars, historyVars>>

\* The awaited pipeline() promise of caller p resolves: lines 100-120.
InitSucceed(p) ==
    /\ pc[p] = "loading"
    /\ ~Blocked
    /\ embeddingPipeline' = initOf[p]
    /\ isLoading' = FALSE
    /\ Deliver(p, kind[p], HandleRet(initOf[p]))
    /\ frame' = FrameAfter(p, frame)
    /\ UNCHANGED <<loadError, kind, nextInit, lifetimeInits, failedInLifetime, freshUnload,
                   cacheVars, args, events, probes, historyVars>>

\* InitFail with the assignment of loadError left out.
InitFail_NoStoredError(p) ==
    /\ pc[p] = "loading"
    /\ ~Blocked
    /\ isLoading' = FALSE
    /\ failedInLifetime' = TRUE
    /\ Deliver(p, kind[p], ErrorRet(initOf[p]))
    /\ frame' = FrameAfter(p, frame)
    /\ UNCHANGED <<embeddingPipeline, loadError, kind, nextInit, lifetimeInits, freshUnload,
                   cacheVars, args, events, probes, historyVars>>

\* The awaited pipeline() promise of caller p rejects: the catch block, lines 121-126.
InitFail(p) ==
    /\ pc[p] = "loading"
    /\ ~Blocked
    /\ loadError' = initOf[p]
    /\ isLoading' = FALSE
    /\ failedInLifetime' = TRUE
    /\ Deliver(p, kind[p], ErrorRet(initOf[p]))
    /\ frame' = FrameAfter(p, frame)
    /\ UNCHANGED <<embeddingPipeline, kind, nextInit, lifetimeInits, freshUnload,
                   cacheVars, args, events, probes, historyVars>>

\* One firing of the 100 ms interval of a waiting caller: lines 81-89.
PollTick(p) ==
    /\ pc[p] = "waiting"
    /\ ~Blocked
    /\ IF embeddingPipeline # NoHandle
       THEN Deliver(p, kind[p], HandleRet(embeddingPipeline))
       ELSE IF loadError # NoError
       THEN Deliver(p, kind[p], ErrorRet(loadError))
       ELSE UNCHANGED <<pc, ret, initOf, settledInLifetime>>
    /\ frame' = FrameAfter(p, frame)
    /\ UNCHANGED <<loaderVars, kind, nextInit, lifetimeInits, failedInLifetime, freshUnload,
                   cacheVars, args, events, probes, historyVars>>

\* unloadModel(): synchronous, callable between any two steps.
UnloadModel ==
    /\ ~Blocked
    /\ embeddingPipeline' = NoHandle
    /\ loadError' = NoError
    /\ isLoading' = FALSE
    /\ lifetimeInits' = 0
    /\ failedInLifetime' = FALSE
    /\ freshUnload' = TRUE
    /\ settledInLifetime' = {}
    /\ UNCHANGED <<pc, kind, initOf, ret, nextInit, cacheVars, callVars, historyVars>>

Next ==
    \/ \E p \in Procs : GetEmbeddingPipeline(p)
    \/ \E p \in Procs : InitSucceed(p)
    \/ \E p \in Procs : InitFail(p)
    \/ \E p \in Procs : PollTick(p)
    \/ UnloadModel

Spec == Init /\ [][Next]_vars

(***************************************************************************)
(* model-loader.ts: getEmbeddingPipeline(onProgress) with an observer      *)
(***************************************************************************)
\* The observers: none, one that returns from every notification, and one
\* for each status getEmbeddingPipeline itself reports that throws when it is
\* notified of that status.
Observers ==
    {NoObserver, [present |-> TRUE, throwsAt |-> {}]}
    \cup {[present |-> TRUE, throwsAt |-> {st}] : st \in {"loading", "ready", "error"}}

\* onProgress?.({ status }) throws.
Throws(obs, st) == obs.present /\ st \in obs.throwsAt

\* The Error objects a throwing observer throws, by status.
ObserverError == [loading |-> -2, ready |-> -3, error |-> -4]

\* What the catch block, entered with error, rejects the call with: line 124
\* notifies the observer after loadError is assigned, and an exception there
\* leaves the block instead of loadError.
Rejection(error, obs) == IF Throws(obs, "error") THEN ObserverError.error ELSE error

\* A direct call getEmbeddingPipeline(obs) by caller p: lines 68-116 and, when
\* the notification of line 97 throws, the catch block.
GetEmbeddingPipelineObserved(p, obs) ==
    /\ pc[p] = "idle"
    /\ ~Blocked
    /\ kind' = [kind EXCEPT ![p] = "getEmbeddingPipeline"]
    /\ args' = [args EXCEPT ![p] = [NoArgs EXCEPT !.onModelLoad = obs]]
    /\ UNCHANGED <<cacheVars, frame, events, probes, historyVars>>
    /\ IF /\ embeddingPipeline = NoHandle
          /\ loadError = NoError
          /\ ~isLoading
          /\ Throws(obs, "loading")
       THEN \* isLoading = true; the observer throws; loadError = error; isLoading = false
            /\ nextInit <= MaxInits
            /\ loadError' = ObserverError.loading
            /\ freshUnload' = FALSE
            /\ Deliver(p, "getEmbeddingPipeline",
                       ErrorRet(Rejection(ObserverError.loading, obs)))
            /\ UNCHANGED <<embeddingPipeline, isLoading, nextInit, lifetimeInits,
                           failedInLifetime>>
       ELSE Acquire(p, "getEmbeddingPipeline")

\* The awaited pipeline() promise of caller p resolves and the observer of the
\* call is notified of 'ready': lines 100-120 and, when it throws, the catch
\* block.
InitSucceedObserved(p) ==
    /\ pc[p] = "loading"
    /\ ~Blocked
    /\ embeddingPipeline' = initOf[p]
    /\ isLoading' = FALSE
    /\ IF Throws(args[p].onModelLoad, "ready")
       THEN /\ loadError' = ObserverError.ready
            /\ Deliver(p, kind[p], ErrorRet(Rejection(ObserverError.ready, args[p].onModelLoad)))
       ELSE /\ loadError' = loadError
            /\ Deliver(p, kind[p], HandleRet(initOf[p]))
    /\ frame' = FrameAfter(p, frame)
    /\ UNCHANGED <<kind, nextInit, lifetimeInits, failedInLifetime, freshUnload,
                   cacheVars, args, events, probes, historyVars>>

\* The awaited pipeline() promise of caller p rejects and the observer of the
\* call is notified of 'error': lines 121-126.
InitFailObserved(p) ==
    /\ pc[p] = "loading"
    /\ ~Blocked
    /\ loadError' = initOf[p]
    /\ isLoading' = FALSE
    /\ failedInLifetime' = TRUE
    /\ Deliver(p, kind[p], ErrorRet(Rejection(initOf[p], args[p].onModelLoad)))
    /\ frame' = FrameAfter(p, frame)
    /\ UNCHANGED <<embeddingPipeline, kind, nextInit, lifetimeInits, freshUnload,
                   cacheVars, args, events, probes, historyVars>>

\* Two callers of getEmbeddingPipeline, with and without observers, and
\* unloadModel().
NextObserved ==
    \/ \E p \in {1, 2}, obs \in Observers : GetEmbeddingPipelineObserved(p, obs)
    \/ \E p \in {1, 2} : InitSucceedObserved(p)
    \/ \E p \in {1, 2} : InitFailObserved(p)
    \/ \E p \in {1, 2} : PollTick(p)
    \/ UnloadModel

SpecObserved == Init /\ [][NextObserved]_vars

(***************************************************************************)
(* generator.ts: the batch loop of generateEmbeddings                      *)
(***************************************************************************)
\* options?.batchSize ?? 32
EffectiveBatchSize(opt) == IF opt = Undefined THEN DefaultBatchSize ELSE opt[1]

\* BatchLoop pushing nothing for a blank text.
RECURSIVE BatchLoop_BlankSkipped(_, _, _, _, _)
BatchLoop_BlankSkipped(texts, batchSize, i, j, acc) ==
    IF ~(i < Len(texts))
    THEN [status |-> "done", i |-> i, j |-> j, results |-> acc.results, progress |-> acc.progress]
    ELSE LET batch == Slice(texts, i, i + batchSize)
         IN  IF j < Len(batch)
             THEN IF IsBlank(batch[j + 1])
                  THEN BatchLoop_BlankSkipped(texts, batchSize, i, j + 1,
                           [results |-> acc.results,
                            progress |-> Append(acc.progress,
                                                BatchProgress(i + j + 1, Len(texts)))])
                  ELSE [status |-> "await", i |-> i, j |-> j,
                        results |-> acc.results, progress |-> acc.progress]
             ELSE IF batchSize <= 0
                  THEN [status |-> "hung", i |-> i, j |-> j,
                        results |-> acc.results, progress |-> acc.progress]
                  ELSE BatchLoop_BlankSkipped(texts, batchSize, i + batchSize, 0, acc)

\* The loop of lines 96-131 from position (i, j), run until it reaches an
\* inference call (status "await", suspended at (i, j)), ends ("done") or can
\* never end ("hung": a batch size <= 0 never moves i past the end).
\* acc holds results and the progress events reported so far.
RECURSIVE BatchLoop(_, _, _, _, _)
BatchLoop(texts, batchSize, i, j, acc) ==
    IF ~(i < Len(texts))
    THEN [status |-> "done", i |-> i, j |-> j, results |-> acc.results, progress |-> acc.progress]
    ELSE LET batch == Slice(texts, i, i + batchSize)
         IN  IF j < Len(batch)
             THEN IF IsBlank(batch[j + 1])
                  THEN BatchLoop(texts, batchSize, i, j + 1,
                           [results |-> Append(acc.results, ZeroVector),
                            progress |-> Append(acc.progress,
                                                BatchProgress(i + j + 1, Len(texts)))])
                  ELSE [status |-> "await", i |-> i, j |-> j,
                        results |-> acc.results, progress |-> acc.progress]
             ELSE IF batchSize <= 0
                  THEN [status |-> "hung", i |-> i, j |-> j,
                        results |-> acc.results, progress |-> acc.progress]
                  ELSE BatchLoop(texts, batchSize, i + batchSize, 0, acc)

\* The loop resumed at (i, j) with the data of the awaited inference call.
BatchLoopResume(texts, batchSize, normalize, i, j, acc, data) ==
    BatchLoop(texts, batchSize, i, j + 1,
        [results |-> Append(acc.results, FromInference(data, normalize)),
         progress |-> Append(acc.progress, BatchProgress(i + j + 1, Len(texts)))])

(***************************************************************************)
(* cache.ts: generateEmbeddingCached and generateEmbeddingsCached          *)
(***************************************************************************)
\* ProbeLoop putting the texts found in the cache on textsToGenerate as well.
RECURSIVE ProbeLoop_HitsRegenerated(_, _, _, _, _)
ProbeLoop_HitsRegenerated(texts, useCache, tbl, i, acc) ==
    IF ~(i < Len(texts))
    THEN acc
    ELSE LET text == texts[i + 1]
             rows == SelectRow(tbl, text)
         IN  IF useCache /\ rows # {}
             THEN LET cached == DecodeRow(CHOOSE r \in rows : TRUE)
                  IN  ProbeLoop_HitsRegenerated(texts, useCache, tbl, i + 1,
                          [acc EXCEPT !.results = ArraySet(@, i, cached),
                                      !.textsToGenerate = Append(@, [index |-> i, text |-> text]),
                                      !.hits = @ + 1,
                                      !.probes = Append(@, [hit |-> TRUE, vector |-> cached])])
             ELSE ProbeLoop_HitsRegenerated(texts, useCache, tbl, i + 1,
                      [acc EXCEPT !.textsToGenerate = Append(@, [index |-> i, text |-> text]),
                                  !.misses = @ + (IF useCache THEN 1 ELSE 0),
                                  !.probes = Append(@, [hit |-> FALSE, vector |-> <<>>])])

\* The probe loop of lines 232-244 from index i on; acc collects results,
\* textsToGenerate, the hits and misses getCachedEmbedding counts, and what
\* each probe found.
RECURSIVE ProbeLoop(_, _, _, _, _)
ProbeLoop(texts, useCache, tbl, i, acc) ==
    IF ~(i < Len(texts))
    THEN acc
    ELSE LET text == texts[i + 1]
             rows == SelectRow(tbl, text)
         IN  IF useCache /\ rows # {}
             THEN LET cached == DecodeRow(CHOOSE r \in rows : TRUE)
                  IN  ProbeLoop(texts, useCache, tbl, i + 1,
                          [acc EXCEPT !.results = ArraySet(@, i, cached),
                                      !.hits = @ + 1,
                                      !.probes = Append(@, [hit |-> TRUE, vector |-> cached])])
             ELSE ProbeLoop(texts, useCache, tbl, i + 1,
                      [acc EXCEPT !.textsToGenerate = Append(@, [index |-> i, text |-> text]),
                                  !.misses = @ + (IF useCache THEN 1 ELSE 0),
                                  !.probes = Append(@, [hit |-> FALSE, vector |-> <<>>])])

NoProbes == [results |-> <<>>, textsToGenerate |-> <<>>, hits |-> 0, misses |-> 0,
             probes |-> <<>>]

\* uncachedTexts = textsToGenerate.map(t => t.text)
UncachedTexts(textsToGenerate) ==
    [k \in 1..Len(textsToGenerate) |-> textsToGenerate[k].text]

\* AdjustProgress without the count of cache hits added to current.
AdjustProgress_NoCachedCount(progress, total, toGenerate) ==
    [k \in 1..Len(progress) |-> BatchProgress(progress[k].current, total)]

\* The onProgress wrapper of lines 254-264 applied to the events of generateEmbeddings.
AdjustProgress(progress, total, toGenerate) ==
    [k \in 1..Len(progress) |-> BatchProgress((total - toGenerate) + progress[k].current, total)]

\* StoreLoop writing to results[k], the position in textsToGenerate, instead of
\* results[index].
RECURSIVE StoreLoop_PositionAsIndex(_, _, _, _, _)
StoreLoop_PositionAsIndex(textsToGenerate, generated, useCache, k, acc) ==
    IF ~(k < Len(textsToGenerate))
    THEN acc
    ELSE LET item == textsToGenerate[k + 1]
             embedding == generated[k + 1]
         IN  StoreLoop_PositionAsIndex(textsToGenerate, generated, useCache, k + 1,
                 [results |-> ArraySet(acc.results, k, embedding),
                  table |-> IF useCache
                            THEN InsertOrReplace(acc.table, item.text, embedding)
                            ELSE acc.table])

\* The store loop of lines 268-277 from position k on.
RECURSIVE StoreLoop(_, _, _, _, _)
StoreLoop(textsToGenerate, generated, useCache, k, acc) ==
    IF ~(k < Len(textsToGenerate))
    THEN acc
    ELSE LET item == textsToGenerate[k + 1]
             embedding == generated[k + 1]
         IN  StoreLoop(textsToGenerate, generated, useCache, k + 1,
                 [results |-> ArraySet(acc.results, item.index, embedding),
                  table |-> IF useCache
                            THEN InsertOrReplace(acc.table, item.text, embedding)
                            ELSE acc.table])

\* generateEmbeddingsCached(texts, options), from the call to its first
\* suspension or return: lines 222-250, generator.ts lines 84-93.
GenerateEmbeddingsCached(p, texts, useCache, normalize, batchSize, onProgress) ==
    /\ pc[p] = "idle"
    /\ ~Blocked
    /\ kind' = [kind EXCEPT ![p] = "generateEmbeddingsCached"]
    /\ args' = [args EXCEPT ![p] = [texts |-> texts, useCache |-> useCache,
                                    normalize |-> normalize, batchSize |-> batchSize,
                                    onProgress |-> onProgress,
                                    onModelLoad |-> NoObserver]]
    /\ events' = [events EXCEPT ![p] = <<>>]
    /\ table' = table
    /\ table2' = table2
    /\ calls' = calls + 1
    /\ lookups' = lookups + (IF useCache THEN Len(texts) ELSE 0)
    /\ UNCHANGED <<inferences, opLog>>
    /\ LET pr == ProbeLoop(texts, useCache, table, 0, NoProbes)
       IN  /\ cacheHits' = cacheHits + pr.hits
           /\ cacheMisses' = cacheMisses + pr.misses
           /\ probes' = [probes EXCEPT ![p] = pr.probes]
           /\ IF Len(texts) = 0
              THEN \* return []
                   /\ ret' = [ret EXCEPT ![p] = VectorsRet(<<>>)]
                   /\ UNCHANGED <<pc, frame, initOf, loaderVars, nextInit, lifetimeInits,
                                  failedInLifetime, freshUnload, settledInLifetime>>
              ELSE IF Len(pr.textsToGenerate) = 0
              THEN \* return results
                   /\ ret' = [ret EXCEPT ![p] = VectorsRet(pr.results)]
                   /\ UNCHANGED <<pc, frame, initOf, loaderVars, nextInit, lifetimeInits,
                                  failedInLifetime, freshUnload, settledInLifetime>>
              ELSE \* await generateEmbeddings(uncachedTexts, ...)
                   /\ Acquire(p, "generateEmbeddingsCached")
                   /\ frame' = FrameAfter(p, [frame EXCEPT ![p] =
                                   [NoFrame EXCEPT !.results = pr.results,
                                                   !.textsToGenerate = pr.textsToGenerate]])

\* GenerateEmbeddingCached looking the text up whatever useCache says.
GenerateEmbeddingCached_AlwaysProbes(p, text, useCache, normalize) ==
    /\ pc[p] = "idle"
    /\ ~Blocked
    /\ kind' = [kind EXCEPT ![p] = "generateEmbeddingCached"]
    /\ args' = [args EXCEPT ![p] = [NoArgs EXCEPT !.texts = <<text>>,
                                                  !.useCache = useCache,
                                                  !.normalize = normalize]]
    /\ events' = [events EXCEPT ![p] = <<>>]
    /\ table' = table
    /\ table2' = table2
    /\ calls' = calls + 1
    /\ lookups' = lookups + (IF useCache THEN 1 ELSE 0)
    /\ UNCHANGED <<inferences, opLog>>
    /\ LET pr == ProbeLoop(<<text>>, TRUE, table, 0, NoProbes)
       IN  /\ cacheHits' = cacheHits + pr.hits
           /\ cacheMisses' = cacheMisses + pr.misses
           /\ probes' = [probes EXCEPT ![p] = pr.probes]
           /\ IF pr.hits = 1
              THEN \* return cached
                   /\ ret' = [ret EXCEPT ![p] = VectorRet(pr.results[1])]
                   /\ UNCHANGED <<pc, frame, initOf, loaderVars, nextInit, lifetimeInits,
                                  failedInLifetime, freshUnload, settledInLifetime>>
              ELSE IF IsBlank(text)
              THEN \* generateEmbedding returns the zero vector; the caller awaits it
                   /\ pc' = [pc EXCEPT ![p] = "store"]
                   /\ frame' = [frame EXCEPT ![p] = [NoFrame EXCEPT !.generated = <<ZeroVector>>]]
                   /\ UNCHANGED <<ret, initOf, loaderVars, nextInit, lifetimeInits,
                                  failedInLifetime, freshUnload, settledInLifetime>>
              ELSE \* await getEmbeddingPipeline(options?.onModelLoad)
                   /\ Acquire(p, "generateEmbeddingCached")
                   /\ frame' = FrameAfter(p, frame)

\* generateEmbeddingCached(text, options), from the call to its first
\* suspension or return: lines 191-202, generator.ts lines 44-49.
GenerateEmbeddingCached(p, text, useCache, normalize) ==
    /\ pc[p] = "idle"
    /\ ~Blocked
    /\ kind' = [kind EXCEPT ![p] = "generateEmbeddingCached"]
    /\ args' = [args EXCEPT ![p] = [NoArgs EXCEPT !.texts = <<text>>,
                                                  !.useCache = useCache,
                                                  !.normalize = normalize]]
    /\ events' = [events EXCEPT ![p] = <<>>]
    /\ table' = table
    /\ table2' = table2
    /\ calls' = calls + 1
    /\ lookups' = lookups + (IF useCache THEN 1 ELSE 0)
    /\ UNCHANGED <<inferences, opLog>>
    /\ LET pr == ProbeLoop(<<text>>, useCache, table, 0, NoProbes)
       IN  /\ cacheHits' = cacheHits + pr.hits
           /\ cacheMisses' = cacheMisses + pr.misses
           /\ probes' = [probes EXCEPT ![p] = pr.probes]
           /\ IF pr.hits = 1
              THEN \* return cached
                   /\ ret' = [ret EXCEPT ![p] = VectorRet(pr.results[1])]
                   /\ UNCHANGED <<pc, frame, initOf, loaderVars, nextInit, lifetimeInits,
                                  failedInLifetime, freshUnload, settledInLifetime>>
              ELSE IF IsBlank(text)
              THEN \* generateEmbedding returns the zero vector; the caller awaits it
                   /\ pc' = [pc EXCEPT ![p] = "store"]
                   /\ frame' = [frame EXCEPT ![p] = [NoFrame EXCEPT !.generated = <<ZeroVector>>]]
                   /\ UNCHANGED <<ret, initOf, loaderVars, nextInit, lifetimeInits,
                                  failedInLifetime, freshUnload, settledInLifetime>>
              ELSE \* await getEmbeddingPipeline(options?.onModelLoad)
                   /\ Acquire(p, "generateEmbeddingCached")
                   /\ frame' = FrameAfter(p, frame)

(***************************************************************************)
(* generator.ts: generateEmbedding and generateEmbeddings called directly  *)
(***************************************************************************)
\* generateEmbeddings(texts, options), from the call to its first suspension
\* or return: lines 80-93.  The model is acquired before the loop looks at
\* any text.
GenerateEmbeddings(p, texts, normalize, batchSize, onProgress) ==
    /\ pc[p] = "idle"
    /\ ~Blocked
    /\ kind' = [kind EXCEPT ![p] = "generateEmbeddings"]
    /\ args' = [args EXCEPT ![p] = [NoArgs EXCEPT !.texts = texts,
                                                  !.normalize = normalize,
                                                  !.batchSize = batchSize,
                                                  !.onProgress = onProgress]]
    /\ events' = [events EXCEPT ![p] = <<>>]
    /\ probes' = [probes EXCEPT ![p] = <<>>]
    /\ UNCHANGED <<cacheVars, historyVars>>
    /\ IF Len(texts) = 0
       THEN \* return []
            /\ ret' = [ret EXCEPT ![p] = VectorsRet(<<>>)]
            /\ UNCHANGED <<pc, frame, initOf, loaderVars, nextInit, lifetimeInits,
                           failedInLifetime, freshUnload, settledInLifetime>>
       ELSE \* await getEmbeddingPipeline(options?.onModelLoad)
            /\ Acquire(p, "generateEmbeddings")
            /\ frame' = FrameAfter(p, frame)

\* generateEmbedding(text, options), from the call to its first suspension or
\* return: lines 40-49.
GenerateEmbedding(p, text, normalize) ==
    /\ pc[p] = "idle"
    /\ ~Blocked
    /\ kind' = [kind EXCEPT ![p] = "generateEmbedding"]
    /\ args' = [args EXCEPT ![p] = [NoArgs EXCEPT !.texts = <<text>>,
                                                  !.normalize = normalize]]
    /\ events' = [events EXCEPT ![p] = <<>>]
    /\ probes' = [probes EXCEPT ![p] = <<>>]
    /\ UNCHANGED <<cacheVars, historyVars>>
    /\ IF IsBlank(text)
       THEN \* return new Array(MODEL_DIMENSIONS).fill(0)
            /\ ret' = [ret EXCEPT ![p] = VectorRet(ZeroVector)]
            /\ UNCHANGED <<pc, frame, initOf, loaderVars, nextInit, lifetimeInits,
                           failedInLifetime, freshUnload, settledInLifetime>>
       ELSE \* await getEmbeddingPipeline(options?.onModelLoad)
            /\ Acquire(p, "generateEmbedding")
            /\ frame' = FrameAfter(p, frame)

\* The functions that run the batch loop, and the texts the loop of caller p
\* runs over: the uncached texts when generateEmbeddingsCached made the call.
BatchKinds == {"generateEmbeddingsCached", "generateEmbeddings"}
BatchTexts(p) ==
    IF kind[p] = "generateEmbeddings" THEN args[p].texts
    ELSE UncachedTexts(frame[p].textsToGenerate)

\* What the caller's onProgress receives for the events of the batch loop:
\* generateEmbeddingsCached wraps the callback, generateEmbeddings calls it.
ReportedProgress(p, progress) ==
    IF ~args[p].onProgress THEN <<>>
    ELSE IF kind[p] = "generateEmbeddings" THEN progress
    ELSE AdjustProgress(progress, Len(args[p].texts), Len(BatchTexts(p)))

\* The count of inference calls once the batch loop has stopped as run tells:
\* suspended at (i, j) it has just called pipeline(batch[j], ...), line 109.
InferencesAfter(run, texts, batchSizeOption) ==
    IF run.status = "await"
    THEN LET batch == Slice(texts, run.i, run.i + EffectiveBatchSize(batchSizeOption))
         IN  [inferences EXCEPT ![batch[run.j + 1]] = @ + 1]
    ELSE inferences

\* Caller p, holding the pipeline, runs on to its first inference call:
\* generator.ts lines 96-109 (batch) and line 52 (single text).
StartInference(p) ==
    /\ pc[p] = "gotPipeline"
    /\ ~Blocked
    /\ IF kind[p] \in BatchKinds
       THEN \E texts \in {BatchTexts(p)} :
            \E run \in {BatchLoop(texts, EffectiveBatchSize(args[p].batchSize), 0, 0,
                                 [results |-> <<>>, progress |-> <<>>])} :
                /\ pc' = [pc EXCEPT ![p] = IF run.status = "await" THEN "inferring"
                                           ELSE IF run.status = "done" THEN "store"
                                           ELSE "hung"]
                /\ frame' = [frame EXCEPT ![p].generated = run.results,
                                          ![p].i = run.i, ![p].j = run.j]
                /\ events' = [events EXCEPT ![p] = ReportedProgress(p, run.progress)]
                /\ inferences' = InferencesAfter(run, texts, args[p].batchSize)
       ELSE /\ pc' = [pc EXCEPT ![p] = "inferring"]
            /\ inferences' = [inferences EXCEPT ![args[p].texts[1]] = @ + 1]
            /\ UNCHANGED <<frame, events>>
    /\ UNCHANGED <<loaderVars, cacheVars, kind, args, initOf, ret, probes,
                   nextInit, lifetimeInits, failedInLifetime, freshUnload, settledInLifetime,
                   calls, lookups, opLog>>

\* InferenceReturns leaving the vector of generateEmbedding unnormalized.
InferenceReturns_Unnormalized(p) ==
    /\ pc[p] = "inferring"
    /\ ~Blocked
    /\ IF kind[p] \in BatchKinds
       THEN \E texts \in {BatchTexts(p)} :
            \E batchSize \in {EffectiveBatchSize(args[p].batchSize)} :
            \E text \in {Slice(texts, frame[p].i, frame[p].i + batchSize)[frame[p].j + 1]} :
            \E run \in {BatchLoopResume(texts, batchSize, args[p].normalize,
                                       frame[p].i, frame[p].j,
                                       [results |-> frame[p].generated, progress |-> <<>>],
                                       PipelineData(text))} :
                /\ pc' = [pc EXCEPT ![p] = IF run.status = "await" THEN "inferring"
                                           ELSE IF run.status = "done" THEN "store"
                                           ELSE "hung"]
                /\ frame' = [frame EXCEPT ![p].generated = run.results,
                                          ![p].i = run.i, ![p].j = run.j]
                /\ events' = [events EXCEPT ![p] = @ \o ReportedProgress(p, run.progress)]
                /\ inferences' = InferencesAfter(run, texts, args[p].batchSize)
       ELSE /\ pc' = [pc EXCEPT ![p] = "store"]
            /\ frame' = [frame EXCEPT ![p].generated =
                            <<FromInference(PipelineData(args[p].texts[1]), FALSE)>>]
            /\ UNCHANGED <<events, inferences>>
    /\ UNCHANGED <<loaderVars, cacheVars, kind, args, initOf, ret, probes,
                   nextInit, lifetimeInits, failedInLifetime, freshUnload, settledInLifetime,
                   calls, lookups, opLog>>

\* The awaited inference call of caller p resolves: generator.ts lines 114-131
\* and on to the next suspension (batch), lines 58-65 (single text).
InferenceReturns(p) ==
    /\ pc[p] = "inferring"
    /\ ~Blocked
    /\ IF kind[p] \in BatchKinds
       THEN \E texts \in {BatchTexts(p)} :
            \E batchSize \in {EffectiveBatchSize(args[p].batchSize)} :
            \E text \in {Slice(texts, frame[p].i, frame[p].i + batchSize)[frame[p].j + 1]} :
            \E run \in {BatchLoopResume(texts, batchSize, args[p].normalize,
                                       frame[p].i, frame[p].j,
                                       [results |-> frame[p].generated, progress |-> <<>>],
                                       PipelineData(text))} :
                /\ pc' = [pc EXCEPT ![p] = IF run.status = "await" THEN "inferring"
                                           ELSE IF run.status = "done" THEN "store"
                                           ELSE "hung"]
                /\ frame' = [frame EXCEPT ![p].generated = run.results,
                                          ![p].i = run.i, ![p].j = run.j]
                /\ events' = [events EXCEPT ![p] = @ \o ReportedProgress(p, run.progress)]
                /\ inferences' = InferencesAfter(run, texts, args[p].batchSize)
       ELSE /\ pc' = [pc EXCEPT ![p] = "store"]
            /\ frame' = [frame EXCEPT ![p].generated =
                            <<FromInference(PipelineData(args[p].texts[1]), args[p].normalize)>>]
            /\ UNCHANGED <<events, inferences>>
    /\ UNCHANGED <<loaderVars, cacheVars, kind, args, initOf, ret, probes,
                   nextInit, lifetimeInits, failedInLifetime, freshUnload, settledInLifetime,
                   calls, lookups, opLog>>

\* InferenceFails handing back the vectors computed so far instead of the error.
InferenceFails_ReturnsPartial(p) ==
    /\ pc[p] = "inferring"
    /\ ~Blocked
    /\ pc' = [pc EXCEPT ![p] = "idle"]
    /\ ret' = [ret EXCEPT ![p] = VectorsRet(frame[p].generated)]
    /\ frame' = [frame EXCEPT ![p] = NoFrame]
    /\ UNCHANGED <<loaderVars, cacheVars, kind, args, initOf, events, probes,
                   nextInit, lifetimeInits, failedInLifetime, freshUnload, settledInLifetime,
                   historyVars>>

\* The awaited inference call of caller p rejects: the error leaves the call.
InferenceFails(p) ==
    /\ pc[p] = "inferring"
    /\ ~Blocked
    /\ pc' = [pc EXCEPT ![p] = "idle"]
    /\ ret' = [ret EXCEPT ![p] = ErrorRet(InferenceError)]
    /\ frame' = [frame EXCEPT ![p] = NoFrame]
    /\ UNCHANGED <<loaderVars, cacheVars, kind, args, initOf, events, probes,
                   nextInit, lifetimeInits, failedInLifetime, freshUnload, settledInLifetime,
                   historyVars>>

\* StoreResults with cacheEmbedding left out of generateEmbeddingCached.
StoreResults_SingleNotStored(p) ==
    /\ pc[p] = "store"
    /\ ~Blocked
    /\ pc' = [pc EXCEPT ![p] = "idle"]
    /\ frame' = [frame EXCEPT ![p] = NoFrame]
    /\ IF kind[p] = "generateEmbeddingsCached"
       THEN LET st == StoreLoop(frame[p].textsToGenerate, frame[p].generated,
                                args[p].useCache, 0,
                                [results |-> frame[p].results, table |-> table])
            IN  /\ table' = st.table
                /\ ret' = [ret EXCEPT ![p] = VectorsRet(st.results)]
       ELSE /\ table' = table
            /\ ret' = [ret EXCEPT ![p] = VectorRet(frame[p].generated[1])]
    /\ UNCHANGED <<loaderVars, table2, cacheHits, cacheMisses, kind, args, initOf, events, probes,
                   nextInit, lifetimeInits, failedInLifetime, freshUnload,
                   settledInLifetime, historyVars>>

\* The awaited generateEmbedding(s) call of caller p has returned: lines
\* 268-280 (batch) and 205-209 (single text) of cache.ts; a direct caller of
\* generator.ts has the results of line 133 (batch) or the vector of line 65.
StoreResults(p) ==
    /\ pc[p] = "store"
    /\ ~Blocked
    /\ pc' = [pc EXCEPT ![p] = "idle"]
    /\ frame' = [frame EXCEPT ![p] = NoFrame]
    /\ IF kind[p] = "generateEmbeddings"
       THEN /\ table' = table
            /\ ret' = [ret EXCEPT ![p] = VectorsRet(frame[p].generated)]
       ELSE IF kind[p] = "generateEmbedding"
       THEN /\ table' = table
            /\ ret' = [ret EXCEPT ![p] = VectorRet(frame[p].generated[1])]
       ELSE IF kind[p] = "generateEmbeddingsCached"
       THEN LET st == StoreLoop(frame[p].textsToGenerate, frame[p].generated,
                                args[p].useCache, 0,
                                [results |-> frame[p].results, table |-> table])
            IN  /\ table' = st.table
                /\ ret' = [ret EXCEPT ![p] = VectorsRet(st.results)]
       ELSE /\ table' = IF args[p].useCache
                        THEN InsertOrReplace(table, args[p].texts[1], frame[p].generated[1])
                        ELSE table
            /\ ret' = [ret EXCEPT ![p] = VectorRet(frame[p].generated[1])]
    /\ UNCHANGED <<loaderVars, table2, cacheHits, cacheMisses, kind, args, initOf, events, probes,
                   nextInit, lifetimeInits, failedInLifetime, freshUnload,
                   settledInLifetime, historyVars>>

(***************************************************************************)
(* The cached generator with one caller                                    *)
(***************************************************************************)
Caller == 1
TextLists == UNION {[1..n -> Texts] : n \in 0..MaxItems}
BatchSizes == {Undefined, <<1>>, <<2>>, <<0>>, <<-1>>}

\* The table is persistent: it may hold what earlier runs of the program
\* stored for non-blank texts with the default options.
StoredByEarlierRun(S) ==
    {[content_hash |-> hashContent(t),
      embedding |-> Float32Array(FromInference(PipelineData(t), TRUE)),
      model_version |-> MODEL_NAME,
      dimensions |-> MODEL_DIMENSIONS] : t \in S}

InitCached ==
    /\ InitLoader
    /\ \E S \in SUBSET {t \in Texts : ~IsBlank(t)} : table = StoredByEarlierRun(S)

\* One call of the cached generator by one caller, on the table it finds.
\* Nobody calls unloadModel() meanwhile: the vectors do not depend on which
\* pipeline object computes them.
NextCached ==
    \/ /\ kind[Caller] = "none"
       /\ \E texts \in TextLists, useCache \in BOOLEAN, normalize \in BOOLEAN,
             batchSize \in BatchSizes, onProgress \in BOOLEAN :
               GenerateEmbeddingsCached(Caller, texts, useCache, normalize, batchSize, onProgress)
    \/ /\ kind[Caller] = "none"
       /\ \E text \in Texts, useCache \in BOOLEAN, normalize \in BOOLEAN :
               GenerateEmbeddingCached(Caller, text, useCache, normalize)
    \/ InitSucceed(Caller)
    \/ InitFail(Caller)
    \/ StartInference(Caller)
    \/ InferenceReturns(Caller)
    \/ InferenceFails(Caller)
    \/ StoreResults(Caller)

SpecCached == InitCached /\ [][NextCached]_vars

(***************************************************************************)
(* One caller making generateEmbeddingCached calls one after the other     *)
(***************************************************************************)
\* number of calls a behaviour may make
MaxCalls == 2

NextRepeat ==
    \/ /\ calls < MaxCalls
       /\ \E text \in Texts, useCache \in BOOLEAN, normalize \in BOOLEAN :
               GenerateEmbeddingCached(Caller, text, useCache, normalize)
    \/ InitSucceed(Caller)
    \/ InitFail(Caller)
    \/ StartInference(Caller)
    \/ InferenceReturns(Caller)
    \/ InferenceFails(Caller)
    \/ StoreResults(Caller)

SpecRepeat == InitCached /\ [][NextRepeat]_vars

(***************************************************************************)
(* cache.ts: the cache functions called directly, one call after another   *)
(***************************************************************************)
\* number of getCachedEmbedding() calls between two resets of the counters
MaxLookups == 3

\* model_version of the rows a release with another MODEL_NAME has left behind
OLD_MODEL_NAME == "old-model-v1"

\* The contents looked up and stored.
Contents == {<<97, 98>>, <<98, 97>>}
\* The vectors given to cacheEmbedding, of MODEL_DIMENSIONS numbers: one that a
\* Float32Array holds exactly, and one it has to round (as it rounds 0.1).
Embeddings == {[k \in 1..MODEL_DIMENSIONS |-> Scale \div 2],
               [k \in 1..MODEL_DIMENSIONS |-> Scale \div 10 + k]}

NullRet == [status |-> "null", val |-> 0]
VoidRet == [status |-> "void", val |-> 0]
CountRet(n) == [status |-> "count", val |-> n]
BoolRet(b) == [status |-> "bool", val |-> b]
StatsRet(st) == [status |-> "stats", val |-> st]

\* A direct call of a cache function: its name, arguments and return value.
LogEntry(op, content, embedding, result) ==
    [op |-> op, content |-> content, embedding |-> embedding, result |-> result]
\* The log keeps the three latest calls.
Logged(entry) ==
    LET log == Append(opLog, entry)
    IN  IF Len(log) > 3 THEN Tail(log) ELSE log

\* The rows of the current model version, those of other versions.
CurrentRows(tbl) == {r \in tbl : r.model_version = MODEL_NAME}
OldRows(tbl) == {r \in tbl : r.model_version # MODEL_NAME}

\* The CacheStats object of getCacheStats: lines 102-117.
CacheStats(tbl, hits, misses) ==
    LET totalRequests == hits + misses
    IN  [hits |-> hits,
         misses |-> misses,
         hitRate |-> IF totalRequests > 0 THEN (hits * Scale) \div totalRequests ELSE 0,
         totalEntries |-> Cardinality(CurrentRows(tbl)),
         modelVersion |-> MODEL_NAME]

\* No cached-generator call is in progress while the cache functions are called.
CacheCallFrame ==
    UNCHANGED <<table2, loaderVars, pc, kind, args, frame, initOf, ret, events, probes,
                nextInit, lifetimeInits, failedInLifetime, freshUnload, settledInLifetime,
                inferences, calls>>

\* GetCachedEmbedding with the cacheHits++ of line 68 left out.
GetCachedEmbedding_HitNotCounted(content) ==
    /\ pc[Caller] = "idle"
    /\ lookups < MaxLookups
    /\ lookups' = lookups + 1
    /\ table' = table
    /\ LET rows == SelectRow(table, content)
       IN  IF rows # {}
           THEN /\ cacheHits' = cacheHits
                /\ cacheMisses' = cacheMisses
                /\ opLog' = Logged(LogEntry("getCachedEmbedding", content, <<>>,
                                            VectorRet(DecodeRow(CHOOSE r \in rows : TRUE))))
           ELSE /\ cacheMisses' = cacheMisses + 1
                /\ cacheHits' = cacheHits
                /\ opLog' = Logged(LogEntry("getCachedEmbedding", content, <<>>, NullRet))
    /\ CacheCallFrame

\* getCachedEmbedding(db, content): lines 55-76.
GetCachedEmbedding(content) ==
    /\ pc[Caller] = "idle"
    /\ lookups < MaxLookups
    /\ lookups' = lookups + 1
    /\ table' = table
    /\ LET rows == SelectRow(table, content)
       IN  IF rows # {}
           THEN /\ cacheHits' = cacheHits + 1
                /\ cacheMisses' = cacheMisses
                /\ opLog' = Logged(LogEntry("getCachedEmbedding", content, <<>>,
                                            VectorRet(DecodeRow(CHOOSE r \in rows : TRUE))))
           ELSE /\ cacheMisses' = cacheMisses + 1
                /\ cacheHits' = cacheHits
                /\ opLog' = Logged(LogEntry("getCachedEmbedding", content, <<>>, NullRet))
    /\ CacheCallFrame

\* cacheEmbedding(db, content, embedding): lines 81-97.
CacheEmbedding(content, embedding) ==
    /\ pc[Caller] = "idle"
    /\ table' = InsertOrReplace(table, content, embedding)
    /\ opLog' = Logged(LogEntry("cacheEmbedding", content, embedding, VoidRet))
    /\ UNCHANGED <<cacheHits, cacheMisses, lookups>>
    /\ CacheCallFrame

\* getCacheStats(db): lines 102-117.
GetCacheStats ==
    /\ pc[Caller] = "idle"
    /\ opLog' = Logged(LogEntry("getCacheStats", <<>>, <<>>,
                                StatsRet(CacheStats(table, cacheHits, cacheMisses))))
    /\ UNCHANGED <<table, cacheHits, cacheMisses, lookups>>
    /\ CacheCallFrame

\* resetCacheStats(): lines 122-125.
ResetCacheStats ==
    /\ pc[Caller] = "idle"
    /\ cacheHits' = 0
    /\ cacheMisses' = 0
    /\ lookups' = 0
    /\ opLog' = Logged(LogEntry("resetCacheStats", <<>>, <<>>, VoidRet))
    /\ table' = table
    /\ CacheCallFrame

\* ClearCache with the call of resetCacheStats left out.
ClearCache_StatsKept ==
    /\ pc[Caller] = "idle"
    /\ table' = {r \in table : ~(r.model_version = MODEL_NAME)}
    /\ opLog' = Logged(LogEntry("clearCache", <<>>, <<>>,
                                CountRet(Cardinality(table) - Cardinality(table'))))
    /\ UNCHANGED <<cacheHits, cacheMisses, lookups>>
    /\ CacheCallFrame

\* clearCache(db): lines 130-137.
ClearCache ==
    /\ pc[Caller] = "idle"
    /\ table' = {r \in table : ~(r.model_version = MODEL_NAME)}
    /\ cacheHits' = 0
    /\ cacheMisses' = 0
    /\ lookups' = 0
    /\ opLog' = Logged(LogEntry("clearCache", <<>>, <<>>,
                                CountRet(Cardinality(table) - Cardinality(table'))))
    /\ CacheCallFrame

\* ClearOldCache deleting every row, whatever its model_version.
ClearOldCache_AllRows ==
    /\ pc[Caller] = "idle"
    /\ table' = {}
    /\ opLog' = Logged(LogEntry("clearOldCache", <<>>, <<>>,
                                CountRet(Cardinality(table) - Cardinality(table'))))
    /\ UNCHANGED <<cacheHits, cacheMisses, lookups>>
    /\ CacheCallFrame

\* clearOldCache(db): lines 142-148.
ClearOldCache ==
    /\ pc[Caller] = "idle"
    /\ table' = {r \in table : ~(r.model_version # MODEL_NAME)}
    /\ opLog' = Logged(LogEntry("clearOldCache", <<>>, <<>>,
                                CountRet(Cardinality(table) - Cardinality(table'))))
    /\ UNCHANGED <<cacheHits, cacheMisses, lookups>>
    /\ CacheCallFrame

\* InvalidateCacheEntry deleting only a row of the current model version.
InvalidateCacheEntry_CurrentVersionOnly(content) ==
    /\ pc[Caller] = "idle"
    /\ table' = {r \in table : ~(r.content_hash = hashContent(content)
                                 /\ r.model_version = MODEL_NAME)}
    /\ opLog' = Logged(LogEntry("invalidateCacheEntry", content, <<>>,
                                BoolRet(Cardinality(table) - Cardinality(table') > 0)))
    /\ UNCHANGED <<cacheHits, cacheMisses, lookups>>
    /\ CacheCallFrame

\* invalidateCacheEntry(db, content): lines 153-164.
InvalidateCacheEntry(content) ==
    /\ pc[Caller] = "idle"
    /\ table' = {r \in table : ~(r.content_hash = hashContent(content))}
    /\ opLog' = Logged(LogEntry("invalidateCacheEntry", content, <<>>,
                                BoolRet(Cardinality(table) - Cardinality(table') > 0)))
    /\ UNCHANGED <<cacheHits, cacheMisses, lookups>>
    /\ CacheCallFrame

\* A row as cacheEmbedding writes it, of the release whose MODEL_NAME is version.
RowOf(content, embedding, version) ==
    [content_hash |-> hashContent(content),
     embedding |-> Float32Array(embedding),
     model_version |-> version,
     dimensions |-> MODEL_DIMENSIONS]

\* The tables the program may find: content_hash is the primary key, so every
\* content has at most one row, written by this release or by an earlier one.
StoredTables ==
    {tbl \in SUBSET {RowOf(c, e, v) : c \in Contents, e \in Embeddings,
                                     v \in {MODEL_NAME, OLD_MODEL_NAME}} :
        \A r1, r2 \in tbl : r1.content_hash = r2.content_hash => r1 = r2}

InitCache == InitLoader /\ table \in StoredTables

NextCache ==
    \/ \E content \in Contents : GetCachedEmbedding(content)
    \/ \E content \in Contents, embedding \in Embeddings : CacheEmbedding(content, embedding)
    \/ GetCacheStats
    \/ ResetCacheStats
    \/ ClearCache
    \/ ClearOldCache
    \/ \E content \in Contents : InvalidateCacheEntry(content)

SpecCache == InitCache /\ [][NextCache]_vars

(***************************************************************************)
(* Lookups made directly and by the cached generator, on one table         *)
(***************************************************************************)
ContentLists == UNION {[1..n -> Contents] : n \in 1..2}

\* One caller: direct lookups and resets of the counters and, among them, one
\* call of the cached generator run to its end.
NextLookups ==
    \/ /\ kind[Caller] = "none"
       /\ lookups < MaxLookups
       /\ \E text \in Contents, useCache \in BOOLEAN :
               GenerateEmbeddingCached(Caller, text, useCache, TRUE)
    \/ /\ kind[Caller] = "none"
       /\ \E texts \in ContentLists :
               /\ lookups + Len(texts) <= MaxLookups
               /\ GenerateEmbeddingsCached(Caller, texts, TRUE, TRUE, Undefined, FALSE)
    \/ InitSucceed(Caller)
    \/ InitFail(Caller)
    \/ StartInference(Caller)
    \/ InferenceReturns(Caller)
    \/ InferenceFails(Caller)
    \/ StoreResults(Caller)
    \/ \E content \in Contents : GetCachedEmbedding(content)
    \/ ResetCacheStats
    \/ ClearCache

SpecLookups == InitCached /\ [][NextLookups]_vars

(***************************************************************************)
(* Two databases: the caller's, and a second one used next to it           *)
(***************************************************************************)
\* The vectors stored through the second database.
OtherEmbeddings == {[k \in 1..MODEL_DIMENSIONS |-> Scale]}

\* A call on the second database leaves the first one and the callers alone.
OtherCallFrame ==
    UNCHANGED <<table, loaderVars, pc, kind, args, frame, initOf, ret, events, probes,
                nextInit, lifetimeInits, failedInLifetime, freshUnload, settledInLifetime,
                inferences, calls>>

\* GetCachedEmbeddingOther running its SELECT on the first database.
GetCachedEmbeddingOther_SharedTable(content) ==
    /\ pc[Caller] = "idle"
    /\ lookups < MaxLookups
    /\ lookups' = lookups + 1
    /\ table2' = table2
    /\ LET rows == SelectRow(table, content)
       IN  IF rows # {}
           THEN /\ cacheHits' = cacheHits + 1
                /\ cacheMisses' = cacheMisses
                /\ opLog' = Logged(LogEntry("getCachedEmbedding(db2)", content, <<>>,
                                            VectorRet(DecodeRow(CHOOSE r \in rows : TRUE))))
           ELSE /\ cacheMisses' = cacheMisses + 1
                /\ cacheHits' = cacheHits
                /\ opLog' = Logged(LogEntry("getCachedEmbedding(db2)", content, <<>>, NullRet))
    /\ OtherCallFrame

\* getCachedEmbedding(db2, content), db2 being the second database: lines
\* 55-76; the counters are the module's, whatever the database.
GetCachedEmbeddingOther(content) ==
    /\ pc[Caller] = "idle"
    /\ lookups < MaxLookups
    /\ lookups' = lookups + 1
    /\ table2' = table2
    /\ LET rows == SelectRow(table2, content)
       IN  IF rows # {}
           THEN /\ cacheHits' = cacheHits + 1
                /\ cacheMisses' = cacheMisses
                /\ opLog' = Logged(LogEntry("getCachedEmbedding(db2)", content, <<>>,
                                            VectorRet(DecodeRow(CHOOSE r \in rows : TRUE))))
           ELSE /\ cacheMisses' = cacheMisses + 1
                /\ cacheHits' = cacheHits
                /\ opLog' = Logged(LogEntry("getCachedEmbedding(db2)", content, <<>>, NullRet))
    /\ OtherCallFrame

\* cacheEmbedding(db2, content, embedding): lines 81-97.
CacheEmbeddingOther(content, embedding) ==
    /\ pc[Caller] = "idle"
    /\ table2' = InsertOrReplace(table2, content, embedding)
    /\ opLog' = Logged(LogEntry("cacheEmbedding(db2)", content, embedding, VoidRet))
    /\ UNCHANGED <<cacheHits, cacheMisses, lookups>>
    /\ OtherCallFrame

\* The content stored and looked up through both databases.
SharedContent == <<97, 98>>

\* One caller working on the first database (direct calls and one call of
\* either cached generator function), and storing and looking up through the
\* second, always the same content; both databases start empty.
NextStores ==
    \/ \E embedding \in Embeddings : CacheEmbedding(SharedContent, embedding)
    \/ InvalidateCacheEntry(SharedContent)
    \/ ClearCache
    \/ \E embedding \in OtherEmbeddings : CacheEmbeddingOther(SharedContent, embedding)
    \/ GetCachedEmbeddingOther(SharedContent)
    \/ /\ kind[Caller] = "none"
       /\ GenerateEmbeddingCached(Caller, SharedContent, TRUE, TRUE)
    \/ /\ kind[Caller] = "none"
       /\ \E texts \in {<<SharedContent>>, <<SharedContent, SharedContent>>} :
               GenerateEmbeddingsCached(Caller, texts, TRUE, TRUE, Undefined, FALSE)
    \/ InitSucceed(Caller)
    \/ InitFail(Caller)
    \/ StartInference(Caller)
    \/ InferenceReturns(Caller)
    \/ InferenceFails(Caller)
    \/ StoreResults(Caller)

SpecStores == Init /\ [][NextStores]_vars

(***************************************************************************)
(* generator.ts called directly by one caller                              *)
(***************************************************************************)
\* The caller whose getEmbeddingPipeline() call leaves the loader unloaded,
\* loading, ready or failed when Caller makes its call.
Other == 2

\* One direct call of generateEmbedding or generateEmbeddings by Caller, before,
\* during or after one getEmbeddingPipeline() call of Other, with unloadModel()
\* called while Caller's call acquires the model (from then on the call works
\* on the handle it holds).
NextGenerator ==
    \/ /\ kind[Other] = "none"
       /\ GetEmbeddingPipeline(Other)
    \/ /\ kind[Caller] = "none"
       /\ \E texts \in TextLists, normalize \in BOOLEAN, batchSize \in BatchSizes,
             onProgress \in BOOLEAN :
               GenerateEmbeddings(Caller, texts, normalize, batchSize, onProgress)
    \/ /\ kind[Caller] = "none"
       /\ \E text \in Texts, normalize \in BOOLEAN : GenerateEmbedding(Caller, text, normalize)
    \/ \E p \in {Caller, Other} : InitSucceed(p)
    \/ \E p \in {Caller, Other} : InitFail(p)
    \/ \E p \in {Caller, Other} : PollTick(p)
    \/ /\ pc[Caller] \in {"waiting", "loading"}
       /\ UnloadModel
    \/ StartInference(Caller)
    \/ InferenceReturns(Caller)
    \/ InferenceFails(Caller)
    \/ StoreResults(Caller)

SpecGenerator == Init /\ [][NextGenerator]_vars

(***************************************************************************)
(* One batch call, direct or cached                                        *)
(***************************************************************************)
\* One call of generateEmbeddings or generateEmbeddingsCached by one caller,
\* on the table it finds.
NextBatch ==
    \/ /\ kind[Caller] = "none"
       /\ \E texts \in TextLists, normalize \in BOOLEAN, batchSize \in BatchSizes :
               GenerateEmbeddings(Caller, texts, normalize, batchSize, FALSE)
    \/ /\ kind[Caller] = "none"
       /\ \E texts \in TextLists, useCache \in BOOLEAN, batchSize \in BatchSizes :
               GenerateEmbeddingsCached(Caller, texts, useCache, TRUE, batchSize, FALSE)
    \/ InitSucceed(Caller)
    \/ InitFail(Caller)
    \/ StartInference(Caller)
    \/ InferenceReturns(Caller)
    \/ InferenceFails(Caller)
    \/ StoreResults(Caller)

SpecBatch == InitCached /\ [][NextBatch]_vars

(***************************************************************************)
(* Two concurrent generateEmbeddingCached calls for one content            *)
(***************************************************************************)
Pair == {Caller, Other}

\* Caller and Other each call generateEmbeddingCached once with the default
\* options, for the same non-blank content and on the same database, the
\* second call made before the first has ended.
NextPair ==
    \/ \E p \in Pair, text \in Contents :
          /\ kind[p] = "none"
          /\ \A q \in Pair \ {p} :
                /\ ret[q].status = "none"
                /\ kind[q] # "none" => args[q].texts = <<text>>
          /\ GenerateEmbeddingCached(p, text, TRUE, TRUE)
    \/ \E p \in Pair : InitSucceed(p)
    \/ \E p \in Pair : InitFail(p)
    \/ \E p \in Pair : PollTick(p)
    \/ \E p \in Pair : StartInference(p)
    \/ \E p \in Pair : InferenceReturns(p)
    \/ \E p \in Pair : InferenceFails(p)
    \/ \E p \in Pair : StoreResults(p)

SpecPair == InitCached /\ [][NextPair]_vars

(***************************************************************************)
(* generateEmbeddings over long lists with a progress callback             *)
(***************************************************************************)
\* the longest list of texts
MaxTotal == 40

\* Lists of one text repeated, after a first text that may be blank.
ProgressLists ==
    {[i \in 1..n |-> IF i = 1 THEN t ELSE <<97, 98>>] :
        n \in 1..MaxTotal, t \in {<<32>>, <<97, 98>>}}

\* One generateEmbeddings call with a callback, on a fresh process.
NextProgress ==
    \/ /\ kind[Caller] = "none"
       /\ \E texts \in ProgressLists, batchSize \in {Undefined, <<1>>, <<7>>} :
               GenerateEmbeddings(Caller, texts, TRUE, batchSize, TRUE)
    \/ InitSucceed(Caller)
    \/ InitFail(Caller)
    \/ StartInference(Caller)
    \/ InferenceReturns(Caller)
    \/ InferenceFails(Caller)
    \/ StoreResults(Caller)

SpecProgress == Init /\ [][NextProgress]_vars

(***************************************************************************)
(* generateEmbeddings on a loaded model, every inference returning         *)
(***************************************************************************)
\* Other loads the model; then Caller makes one generateEmbeddings call, and
\* no construction and no inference call fails.
NextReady ==
    \/ /\ kind[Other] = "none"
       /\ GetEmbeddingPipeline(Other)
    \/ InitSucceed(Other)
    \/ /\ kind[Caller] = "none"
       /\ embeddingPipeline # NoHandle
       /\ \E texts \in TextLists, normalize \in BOOLEAN, batchSize \in BatchSizes,
             onProgress \in BOOLEAN :
               GenerateEmbeddings(Caller, texts, normalize, batchSize, onProgress)
    \/ StartInference(Caller)
    \/ InferenceReturns(Caller)
    \/ StoreResults(Caller)

SpecReady == Init /\ [][NextReady]_vars

\* The event loop runs the continuation of every settled promise: the call
\* goes on once it has the pipeline, each inference call returns, and the
\* caller's await receives the array.
FairSpecReady ==
    /\ SpecReady
    /\ WF_vars(StartInference(Caller))
    /\ WF_vars(InferenceReturns(Caller))
    /\ WF_vars(StoreResults(Caller))

\* The promises of pipeline() and the interval timers are served by the event
\* loop: a pending construction eventually settles and a waiter's interval
\* keeps firing.  Calls of getEmbeddingPipeline and unloadModel are up to the
\* callers and carry no fairness.
FairSpec ==
    /\ Spec
    /\ \A p \in Procs : WF_vars(PollTick(p))
    /\ \A p \in Procs : WF_vars(InitSucceed(p) \/ InitFail(p))

(***************************************************************************)
(* Properties of the model loader                                          *)
(***************************************************************************)
InitsInFlight == {p \in Procs : pc[p] = "loading"}

\* C1: at any time at most one pipeline() construction is in flight, under
\* every interleaving of getEmbeddingPipeline and unloadModel calls.
C1_AtMostOneInitInFlight == Cardinality(InitsInFlight) <= 1

\* C2: between two consecutive unloadModel() calls (or from the start to the
\* first one) the pipeline() constructor is started at most once.
C2_OncePerLifetime == lifetimeInits <= 1

\* One construction was started in this lifetime while a second caller asked
\* for the pipeline and was made to wait.
C2_Witness ==
    /\ lifetimeInits = 1
    /\ \E p, q \in Procs : pc[p] = "loading" /\ pc[q] = "waiting" /\ initOf[p] = nextInit - 1

\* C3: every caller waiting on an in-flight construction eventually settles.
C3_WaitersComplete == \A p \in Procs : (pc[p] = "waiting") ~> (pc[p] = "idle")

\* C4: once a construction has failed, every getEmbeddingPipeline() call made
\* before the next unloadModel() throws the stored error and starts nothing.
C4_StickyFailure ==
    [][\A p \in Procs :
          (failedInLifetime /\ GetEmbeddingPipeline(p))
              => (pc'[p] = "idle" /\ ret'[p] = ErrorRet(loadError) /\ loadError # NoError)]_vars

\* C5: unloadModel() leaves no handle, no error and no loading flag, and the
\* first getEmbeddingPipeline() call after it starts a fresh construction.
C5_UnloadThenFreshInit ==
    [][/\ UnloadModel =>
              (embeddingPipeline' = NoHandle /\ loadError' = NoError /\ ~isLoading')
       /\ \A p \in Procs :
              (freshUnload /\ GetEmbeddingPipeline(p))
                  => (pc'[p] = "loading" /\ initOf'[p] = nextInit)]_vars

\* C6: the handles returned by successful calls with no unloadModel() between
\* them are one and the same, the handle the loader holds.
C6_SharedSingleton ==
    /\ Cardinality(settledInLifetime) <= 1
    /\ settledInLifetime \subseteq {embeddingPipeline}

(***************************************************************************)
(* Properties of the cached generator                                      *)
(***************************************************************************)
\* The call of the caller has returned its vectors.
Returned == pc[Caller] = "idle" /\ ret[Caller].status \in {"vector", "vectors"}
ReturnedBatch == Returned /\ kind[Caller] = "generateEmbeddingsCached"
\* The vector returned for texts[i].
OutputAt(i) == IF ret[Caller].status = "vector" THEN ret[Caller].val ELSE ret[Caller].val[i]
\* What the generator computes for one text.
FreshVector(text, normalize) ==
    IF IsBlank(text) THEN ZeroVector ELSE FromInference(PipelineData(text), normalize)
\* The indices of the call's texts whose probe hit.
HitIndices == {i \in 1..Len(probes[Caller]) : probes[Caller][i].hit}

\* C7: generateEmbeddingsCached returns one vector per text, no slot unfilled,
\* at index i the cached vector of texts[i] when its probe hit and the freshly
\* computed vector of texts[i] otherwise.
C7_OrderPreserved ==
    ReturnedBatch =>
        /\ Len(ret[Caller].val) = Len(args[Caller].texts)
        /\ \A i \in 1..Len(args[Caller].texts) :
              /\ ret[Caller].val[i] # Hole
              /\ ret[Caller].val[i] =
                    IF probes[Caller][i].hit
                    THEN probes[Caller][i].vector
                    ELSE FreshVector(args[Caller].texts[i], args[Caller].normalize)

\* A batch has returned in which a miss comes before a hit and another miss
\* after it, the two misses being different texts.
C7_Witness ==
    /\ ReturnedBatch
    /\ \E i, j, k \in 1..Len(args[Caller].texts) :
          /\ i < j /\ j < k
          /\ ~probes[Caller][i].hit /\ probes[Caller][j].hit /\ ~probes[Caller][k].hit
          /\ ret[Caller].val[i] # ret[Caller].val[k]

\* C8: every progress event of generateEmbeddingsCached has total = the full
\* number of texts and current <= total; with h cache hits the first event
\* has current = h + 1; the last event of a call that returned has
\* current = total.
C8_AdjustedProgress ==
    (kind[Caller] = "generateEmbeddingsCached" /\ args[Caller].onProgress) =>
        LET n == Len(args[Caller].texts)
            ev == events[Caller]
        IN  /\ \A k \in 1..Len(ev) : ev[k].total = n /\ ev[k].current <= n
            /\ Len(ev) > 0 => ev[1].current = Cardinality(HitIndices) + 1
            /\ (ReturnedBatch /\ Cardinality(HitIndices) < n) =>
                  (Len(ev) > 0 /\ ev[Len(ev)].current = n)

\* A batch with a callback has returned after a cache hit and two misses.
C8_Witness ==
    /\ ReturnedBatch
    /\ args[Caller].onProgress
    /\ Cardinality(HitIndices) = 1
    /\ Len(events[Caller]) = 2
    /\ events[Caller][1].current = 2
    /\ events[Caller][2].current = 3

\* C9: a generateEmbeddingsCached call over n texts with a callback emits
\* exactly n progress events, with current = 1, 2, ..., n in that order.
C9_OneEventPerItem ==
    (ReturnedBatch /\ args[Caller].onProgress) =>
        /\ Len(events[Caller]) = Len(args[Caller].texts)
        /\ \A k \in 1..Len(events[Caller]) : events[Caller][k].current = k

\* C10: for an empty or whitespace-only text the cached generator returns the
\* zero vector, and the cache holds no entry for such a text.
C10_ZeroVectorNeverCached ==
    /\ Returned =>
          \A i \in 1..Len(args[Caller].texts) :
              IsBlank(args[Caller].texts[i]) => OutputAt(i) = ZeroVector
    /\ \A t \in Texts : IsBlank(t) => SelectRow(table, t) = {}

\* C11: with caching enabled, the model is run at most once for each
\* non-blank content, also when the content occurs several times in one batch.
C11_AtMostOneInference ==
    (kind[Caller] # "none" /\ args[Caller].useCache) =>
        \A t \in Texts : ~IsBlank(t) => inferences[t] <= 1

\* The indices of the call's texts equal to t whose probe missed.
MissIndices(t) ==
    {i \in 1..Len(probes[Caller]) : args[Caller].texts[i] = t /\ ~probes[Caller][i].hit}

\* C12: when generateEmbeddingsCached with caching enabled has returned, the
\* inference calls it made are one for every non-blank text whose probe
\* missed and none for a text whose probe hit, and every text whose probe
\* missed has a row under the current model version.
C12_OnlyMissesComputedAndStored ==
    (ReturnedBatch /\ args[Caller].useCache) =>
        /\ \A t \in Texts :
              inferences[t] = IF IsBlank(t) THEN 0 ELSE Cardinality(MissIndices(t))
        /\ \A i \in 1..Len(args[Caller].texts) :
              ~probes[Caller][i].hit => SelectRow(table, args[Caller].texts[i]) # {}

\* A batch of three texts has returned: one was cached, one was computed by
\* the single inference call made, and both have their rows now.
C12_Witness ==
    /\ ReturnedBatch
    /\ args[Caller].useCache
    /\ Len(args[Caller].texts) = 3
    /\ \E i, j \in 1..3 :
          /\ probes[Caller][i].hit
          /\ ~probes[Caller][j].hit
          /\ inferences[args[Caller].texts[j]] = 1
          /\ inferences[args[Caller].texts[i]] = 0
          /\ SelectRow(table, args[Caller].texts[i]) # {}
          /\ SelectRow(table, args[Caller].texts[j]) # {}

\* The last call was generateEmbeddingCached(text) with caching enabled and
\* has returned its vector.
ReturnedSingleCached(text) ==
    /\ Returned
    /\ kind[Caller] = "generateEmbeddingCached"
    /\ args[Caller].texts = <<text>>
    /\ args[Caller].useCache

\* C13: generateEmbeddingCached with caching enabled returns the cached
\* vector at once on a hit, acquiring no model and making no inference call;
\* on a miss it returns the computed vector and has stored it, and a call for
\* the same text right after it is a hit that makes no inference call.
C13_HitReturnsMissStores ==
    /\ [](\A text \in Texts :
            (ReturnedSingleCached(text) /\ ~probes[Caller][1].hit) =>
                /\ ret[Caller].val = FreshVector(text, args[Caller].normalize)
                /\ \E r \in SelectRow(table, text) :
                      r.embedding = Float32Array(ret[Caller].val))
    /\ [][\A text \in Texts, normalize \in BOOLEAN :
            GenerateEmbeddingCached(Caller, text, TRUE, normalize) =>
                /\ SelectRow(table, text) # {} =>
                      /\ pc'[Caller] = "idle"
                      /\ \E r \in SelectRow(table, text) : ret'[Caller] = VectorRet(DecodeRow(r))
                      /\ UNCHANGED <<loaderVars, nextInit, initOf, inferences>>
                /\ ReturnedSingleCached(text) =>
                      /\ probes'[Caller][1].hit
                      /\ pc'[Caller] = "idle"
                      /\ ret'[Caller].status = "vector"
                      /\ inferences' = inferences]_vars

\* Two calls for one non-blank text: the first missed and ran the one
\* inference call made, the second was a hit and has returned.
C13_Witness ==
    /\ calls = 2
    /\ cacheMisses = 1
    /\ cacheHits = 1
    /\ \E text \in Texts :
          /\ ~IsBlank(text)
          /\ ReturnedSingleCached(text)
          /\ probes[Caller][1].hit
          /\ inferences[text] = 1

\* The number of times text t occurs in the list texts.
Occurrences(texts, t) == Cardinality({i \in 1..Len(texts) : texts[i] = t})

\* C14: a call of the cached generator with useCache = false changes neither
\* the rows of the table nor the hit and miss counters at any of its steps and
\* looks nothing up; when it has returned, every non-blank text has been
\* through the model and the vectors returned are the freshly computed ones,
\* also for a text that has a row.
C14_BypassLeavesCacheAlone ==
    /\ []((Returned /\ ~args[Caller].useCache) =>
            /\ lookups = 0
            /\ \A t \in Texts :
                  inferences[t] = IF IsBlank(t) THEN 0
                                  ELSE Occurrences(args[Caller].texts, t)
            /\ \A i \in 1..Len(args[Caller].texts) :
                  OutputAt(i) = FreshVector(args[Caller].texts[i], args[Caller].normalize))
    /\ [][(kind'[Caller] # "none" /\ ~args'[Caller].useCache) => UNCHANGED cacheVars]_vars

\* A batch with useCache = false has returned; one of its texts has a row and
\* went through the model all the same.
C14_Witness ==
    /\ ReturnedBatch
    /\ ~args[Caller].useCache
    /\ \E i \in 1..Len(args[Caller].texts) :
          /\ SelectRow(table, args[Caller].texts[i]) # {}
          /\ inferences[args[Caller].texts[i]] >= 1


(***************************************************************************)
(* Properties of the cache                                                 *)
(***************************************************************************)
\* C15: since the counters were last reset, cacheHits + cacheMisses is the
\* number of lookups made, the probes of the cached generator included; a
\* direct lookup adds one to cacheHits when the content has a row of the
\* current model version and one to cacheMisses otherwise; a step that moves
\* a counter is a lookup, resetCacheStats or clearCache.
C15_OneCountPerLookup ==
    /\ [](cacheHits + cacheMisses = lookups)
    /\ [][/\ \A content \in Contents :
                GetCachedEmbedding(content) =>
                    IF SelectRow(table, content) # {}
                    THEN cacheHits' = cacheHits + 1 /\ cacheMisses' = cacheMisses
                    ELSE cacheMisses' = cacheMisses + 1 /\ cacheHits' = cacheHits
          /\ <<cacheHits, cacheMisses>>' # <<cacheHits, cacheMisses>> =>
                \/ /\ lookups' > lookups
                   /\ cacheHits' >= cacheHits
                   /\ cacheMisses' >= cacheMisses
                \/ ResetCacheStats
                \/ ClearCache]_vars

\* Direct lookups and a batch of the cached generator have both counted: two
\* hits and one miss, three lookups, the batch having made two of them.
C15_Witness ==
    /\ ReturnedBatch
    /\ Len(args[Caller].texts) = 2
    /\ lookups = 3
    /\ cacheHits = 2
    /\ cacheMisses = 1
    /\ opLog # <<>>
    /\ opLog[Len(opLog)].op = "getCachedEmbedding"

\* Entry k of the log is the call op(content, ...).
LoggedCall(k, op, content) ==
    /\ Len(opLog) >= k
    /\ opLog[k].op = op
    /\ opLog[k].content = content
\* The three latest calls were cacheEmbedding(c, v), cacheEmbedding(c, v2),
\* getCachedEmbedding(c).
PutPutGet(c, v, v2) ==
    /\ LoggedCall(1, "cacheEmbedding", c) /\ opLog[1].embedding = v
    /\ LoggedCall(2, "cacheEmbedding", c) /\ opLog[2].embedding = v2
    /\ LoggedCall(3, "getCachedEmbedding", c)
\* No two rows have the same content_hash and model_version.
UniqueRows ==
    \A r1, r2 \in table :
        (r1.content_hash = r2.content_hash /\ r1.model_version = r2.model_version) => r1 = r2
RowsOfContent(c) == {r \in table : r.content_hash = hashContent(c)}

\* C16 as stated: the table never holds two rows with the same content_hash
\* and model_version, and after cacheEmbedding(c, v), cacheEmbedding(c, v2)
\* the call getCachedEmbedding(c) returns v2, the content having one row.
C16_PutOverwritesExact ==
    /\ UniqueRows
    /\ \A c \in Contents, v, v2 \in Embeddings :
          PutPutGet(c, v, v2) =>
              /\ opLog[3].result = VectorRet(v2)
              /\ Cardinality(RowsOfContent(c)) = 1

\* C16 amended: the table never holds two rows with the same content_hash and
\* model_version, and after cacheEmbedding(c, v), cacheEmbedding(c, v2) the
\* call getCachedEmbedding(c) returns v2 as a Float32Array holds it, every
\* number rounded to float32, the content having one row.
C16_PutOverwritesRounded ==
    /\ UniqueRows
    /\ \A c \in Contents, v, v2 \in Embeddings :
          PutPutGet(c, v, v2) =>
              /\ opLog[3].result = VectorRet(Float32Array(v2))
              /\ Cardinality(RowsOfContent(c)) = 1

\* A second, different vector was stored for a content and then read back:
\* what came back is its float32 rounding, which is not the vector stored.
C16_Witness ==
    \E c \in Contents, v, v2 \in Embeddings :
        /\ PutPutGet(c, v, v2)
        /\ v # v2
        /\ Float32Array(v2) # v2
        /\ opLog[3].result = VectorRet(Float32Array(v2))

\* C17: a lookup never returns a row of another model version (a content
\* that has only such a row is a miss), and getCachedEmbedding,
\* cacheEmbedding and clearCache neither delete nor replace a row of another
\* model version.
C17_VersionsPartition ==
    [][/\ \A c \in Contents :
             (GetCachedEmbedding(c) /\ CurrentRows(RowsOfContent(c)) = {})
                 => opLog'[Len(opLog')].result = NullRet
       /\ (\/ \E c \in Contents : GetCachedEmbedding(c)
           \/ \E c \in Contents, e \in Embeddings : CacheEmbedding(c, e)
           \/ ClearCache)
              => OldRows(table) \subseteq table']_vars

\* The latest call logged.
LastCall == opLog[Len(opLog)]

Called(op) == opLog' # opLog /\ LastCall'.op = op

\* C19: clearOldCache deletes the rows whose model_version is not the current
\* one and no other, returns their number, and leaves both counters and the
\* totalEntries that getCacheStats reports as they were.
C19_ClearStale ==
    [][Called("clearOldCache") =>
          /\ table' \subseteq table
          /\ \A r \in table : r \in table' <=> r.model_version = MODEL_NAME
          /\ LastCall'.result = CountRet(Cardinality(OldRows(table)))
          /\ UNCHANGED <<cacheHits, cacheMisses>>
          /\ CacheStats(table', cacheHits', cacheMisses').totalEntries
                = CacheStats(table, cacheHits, cacheMisses).totalEntries]_vars

\* clearOldCache has just deleted one row, with a row of the current model
\* version in the table and a hit on the counters.
C19_Witness ==
    /\ opLog # <<>>
    /\ LastCall.op = "clearOldCache"
    /\ LastCall.result = CountRet(1)
    /\ CurrentRows(table) # {}
    /\ cacheHits > 0

\* C20: invalidateCacheEntry(content) leaves no row under the digest of the
\* content, returns true when there was such a row and false when there was
\* none, leaves every row of another content in the table and adds none,
\* and leaves both counters as they were.
C20_Invalidate ==
    [][\A c \in Contents :
          (Called("invalidateCacheEntry") /\ LastCall'.content = c) =>
              /\ \A r \in table' : r.content_hash # hashContent(c)
              /\ LastCall'.result = BoolRet(RowsOfContent(c) # {})
              /\ \A r \in table : r.content_hash # hashContent(c) => r \in table'
              /\ table' \subseteq table
              /\ UNCHANGED <<cacheHits, cacheMisses>>]_vars

\* invalidateCacheEntry was called twice for one content: it returned true,
\* then false, the row of another content being in the table all along and
\* the counters not at zero.
C20_Witness ==
    /\ Len(opLog) = 3
    /\ opLog[1].op = "getCachedEmbedding"
    /\ opLog[2].op = "invalidateCacheEntry"
    /\ opLog[2].result = BoolRet(TRUE)
    /\ opLog[3].op = "invalidateCacheEntry"
    /\ opLog[3].content = opLog[2].content
    /\ opLog[3].result = BoolRet(FALSE)
    /\ table # {}
    /\ cacheHits + cacheMisses > 0


(***************************************************************************)
(* Properties of two databases used side by side                           *)
(***************************************************************************)
\* The vectors a lookup through the second database may return: those stored
\* through it, as a Float32Array holds them.
StoredThroughOther == {Float32Array(e) : e \in OtherEmbeddings}

\* C21: whatever is stored, generated, invalidated or cleared through the
\* first database, the rows of the second database change only by a
\* cacheEmbedding on the second database and hold only vectors stored through
\* it, and a lookup through the second database returns the row the second
\* database has for the content, null when it has none.
C21_StoresIsolated ==
    /\ [](\A r \in table2 : r.embedding \in StoredThroughOther)
    /\ [][/\ table2' # table2 => Called("cacheEmbedding(db2)")
          /\ \A c \in Contents :
                (Called("getCachedEmbedding(db2)") /\ LastCall'.content = c) =>
                    /\ table2' = table2
                    /\ IF SelectRow(table2, c) = {}
                       THEN LastCall'.result = NullRet
                       ELSE /\ LastCall'.result.status = "vector"
                            /\ LastCall'.result.val \in StoredThroughOther]_vars

\* generateEmbeddingCached has stored a content in the first database, a
\* vector was stored through the second database for another content, and a
\* lookup of the first content through the second database returned null.
C21_Witness ==
    /\ opLog # <<>>
    /\ LastCall.op = "getCachedEmbedding(db2)"
    /\ LastCall.result.status = "vector"
    /\ LastCall.result.val \in StoredThroughOther
    /\ Returned
    /\ kind[Caller] = "generateEmbeddingCached"
    /\ args[Caller].texts = <<LastCall.content>>
    /\ \E r \in SelectRow(table, LastCall.content) : r.embedding # LastCall.result.val

\* A direct generateEmbeddings call of Caller has returned its array.
ReturnedDirectBatch ==
    /\ kind[Caller] = "generateEmbeddings"
    /\ pc[Caller] = "idle"
    /\ ret[Caller].status = "vectors"

\* C22: generateEmbeddings returns exactly one vector per input text, at index
\* i the vector of texts[i], which is the zero vector when texts[i] is blank;
\* called with an empty list it returns [] at once, reports no progress and
\* does not call getEmbeddingPipeline.
C22_OneVectorPerText ==
    /\ [](ReturnedDirectBatch =>
            /\ Len(ret[Caller].val) = Len(args[Caller].texts)
            /\ \A i \in 1..Len(args[Caller].texts) :
                  /\ ret[Caller].val[i] =
                        FreshVector(args[Caller].texts[i], args[Caller].normalize)
                  /\ IsBlank(args[Caller].texts[i]) => ret[Caller].val[i] = ZeroVector)
    /\ []((kind[Caller] = "generateEmbeddings" /\ args[Caller].texts = <<>>) =>
            /\ ret[Caller] = VectorsRet(<<>>)
            /\ events[Caller] = <<>>)
    /\ [][(kind[Caller] = "none" /\ kind'[Caller] = "generateEmbeddings"
                                 /\ args'[Caller].texts = <<>>) =>
            UNCHANGED <<loaderVars, pc, initOf, nextInit, lifetimeInits, settledInLifetime,
                        freshUnload, inferences>>]_vars

\* A direct batch call has returned three vectors: different ones for the
\* first and the third text, and the zero vector for the blank one between.
C22_Witness ==
    /\ ReturnedDirectBatch
    /\ Len(args[Caller].texts) = 3
    /\ IsBlank(args[Caller].texts[2])
    /\ ret[Caller].val[2] = ZeroVector
    /\ ret[Caller].val[1] # ZeroVector
    /\ ret[Caller].val[3] # ZeroVector
    /\ ret[Caller].val[1] # ret[Caller].val[3]

\* 100 * k / n rounded to the nearest integer, a half up.
RoundedPercent(k, n) == (200 * k + n) \div (2 * n)

\* C23: a generateEmbeddings call over n texts with a callback emits one
\* event per item: the k-th event has current = k, total = n and
\* percentage = round(100 * k / n), and a call that returned has emitted
\* exactly n events.
C23_ProgressExact ==
    (kind[Caller] = "generateEmbeddings" /\ args[Caller].onProgress) =>
        LET n == Len(args[Caller].texts)
        IN  /\ \A k \in 1..Len(events[Caller]) :
                  events[Caller][k] =
                      [current |-> k, total |-> n, percentage |-> RoundedPercent(k, n)]
            /\ ReturnedDirectBatch => Len(events[Caller]) = n

\* C23 with the percentage the double arithmetic gives: the k-th event has
\* current = k, total = n and a percentage within 1/2 of 100 * k / n, which is
\* round(100 * k / n) unless 100 * k / n lies halfway between two integers;
\* a call that returned has emitted exactly n events, the last one with
\* percentage 100.
C23_ProgressDouble ==
    (kind[Caller] = "generateEmbeddings" /\ args[Caller].onProgress) =>
        LET n == Len(args[Caller].texts)
            ev == events[Caller]
        IN  /\ \A k \in 1..Len(ev) :
                  /\ ev[k].current = k
                  /\ ev[k].total = n
                  /\ 200 * k - n <= 2 * n * ev[k].percentage
                  /\ 2 * n * ev[k].percentage <= 200 * k + n
                  /\ (200 * k) % (2 * n) # n => ev[k].percentage = RoundedPercent(k, n)
            /\ ReturnedDirectBatch => (Len(ev) = n /\ ev[n].percentage = 100)

\* A call over 40 non-blank texts in batches of 7 has returned after 40
\* events, the 23rd with percentage 57 where 100 * 23 / 40 = 57.5.
C23_Witness ==
    /\ ReturnedDirectBatch
    /\ args[Caller].onProgress
    /\ args[Caller].batchSize = <<7>>
    /\ Len(events[Caller]) = 40
    /\ ~IsBlank(args[Caller].texts[23])
    /\ events[Caller][23] = [current |-> 23, total |-> 40, percentage |-> 57]

\* The batch loop run from where run stopped to where it stops for good, every
\* inference call returning.
RECURSIVE Completed(_, _, _, _)
Completed(texts, batchSize, normalize, run) ==
    IF run.status = "await"
    THEN Completed(texts, batchSize, normalize,
             BatchLoopResume(texts, batchSize, normalize, run.i, run.j,
                 [results |-> run.results, progress |-> run.progress],
                 PipelineData(Slice(texts, run.i, run.i + batchSize)[run.j + 1])))
    ELSE run

\* What generateEmbeddings does over texts with batchSize = 1.
WithBatchSizeOne(texts, normalize) ==
    Completed(texts, 1, normalize, BatchLoop(texts, 1, 0, 0, [results |-> <<>>, progress |-> <<>>]))

\* C24: whatever the batchSize, a generateEmbeddings call does what the call
\* with batchSize = 1 does over the same texts: its loop ends, it returns the
\* same array and its callback has received the same events.
C24_BatchSizeIrrelevant ==
    (kind[Caller] = "generateEmbeddings" /\ Len(args[Caller].texts) > 0) =>
        LET one == WithBatchSizeOne(args[Caller].texts, args[Caller].normalize)
        IN  /\ one.status = "done"
            /\ pc[Caller] # "hung"
            /\ ReturnedDirectBatch =>
                  /\ ret[Caller].val = one.results
                  /\ args[Caller].onProgress => events[Caller] = one.progress

\* Caller has made a direct call of the generator with no text that is not blank.
AllBlankCall ==
    /\ kind[Caller] \in {"generateEmbedding", "generateEmbeddings"}
    /\ \A i \in 1..Len(args[Caller].texts) : IsBlank(args[Caller].texts[i])

\* C25: no inference call is ever made for a blank text, and a direct call of
\* generateEmbedding or generateEmbeddings whose texts are all blank starts
\* no initialization, does not fail, and returns zero vectors only, whatever
\* state the loader is in.
C25_BlankNeedsNoModel ==
    /\ \A t \in Texts : IsBlank(t) => inferences[t] = 0
    /\ AllBlankCall =>
          /\ pc[Caller] # "loading"
          /\ ret[Caller].status # "error"
          /\ Returned => \A i \in 1..Len(args[Caller].texts) : OutputAt(i) = ZeroVector

\* C26: when the initialization or an inference call of a generateEmbeddings
\* or generateEmbeddingsCached call fails, the call ends there with the error
\* of that construction or inference call and keeps no array; the table is
\* written only by the step in which a call returns its array, so a call that
\* failed has written no row.
C26_FailureAbortsBatch ==
    /\ []((kind[Caller] \in BatchKinds /\ ret[Caller].status = "error") =>
            /\ pc[Caller] = "idle"
            /\ frame[Caller] = NoFrame)
    /\ [][(kind[Caller] \in BatchKinds /\ pc'[Caller] = "idle" /\ pc[Caller] = "inferring") =>
            ret'[Caller] = ErrorRet(InferenceError)]_vars
    /\ [][(kind[Caller] \in BatchKinds /\ pc[Caller] = "loading"
                                        /\ embeddingPipeline' = embeddingPipeline) =>
            /\ pc'[Caller] = "idle"
            /\ ret'[Caller] = ErrorRet(initOf[Caller])]_vars
    /\ [][table' # table =>
            /\ ret[Caller].status = "none"
            /\ ret'[Caller].status = "vectors"]_vars

\* A cached batch call has failed in the inference call for its second
\* uncached text, after the one for the first had returned; the table has no
\* row for either.
C26_Witness ==
    /\ kind[Caller] = "generateEmbeddingsCached"
    /\ args[Caller].useCache
    /\ args[Caller].texts = <<<<97, 98>>, <<98, 97>>>>
    /\ ret[Caller] = ErrorRet(InferenceError)
    /\ inferences[<<97, 98>>] = 1
    /\ inferences[<<98, 97>>] = 1
    /\ SelectRow(table, <<97, 98>>) = {}
    /\ SelectRow(table, <<98, 97>>) = {}

\* Both calls of the pair have returned a vector.
BothReturned ==
    \A p \in Pair : /\ kind[p] = "generateEmbeddingCached"
                    /\ pc[p] = "idle"
                    /\ ret[p].status = "vector"

\* C27: of two concurrent generateEmbeddingCached calls for one content, both
\* return the vector the model computes for it, the content is inferred at
\* most twice, and once both have returned the table holds exactly one row
\* for the content, with that vector.
C27_ConcurrentExact ==
    /\ \A c \in Contents : inferences[c] <= 2
    /\ BothReturned =>
          LET c == args[Caller].texts[1]
          IN  /\ \A p \in Pair : ret[p].val = FreshVector(c, TRUE)
              /\ \E r \in table :
                    /\ RowsOfContent(c) = {r}
                    /\ r.embedding = FreshVector(c, TRUE)

\* C27 with the vector as the table holds it: a call whose probe missed
\* returns the vector the model computes, a call whose probe hit returns that
\* vector rounded to 32-bit floats, the content is inferred at most twice,
\* and once both calls have returned the table holds exactly one row for the
\* content, with the rounded vector.
C27_ConcurrentRounded ==
    /\ \A c \in Contents : inferences[c] <= 2
    /\ BothReturned =>
          LET c == args[Caller].texts[1]
          IN  /\ \A p \in Pair :
                    ret[p].val = IF probes[p][1].hit
                                 THEN Float32Array(FreshVector(c, TRUE))
                                 ELSE FreshVector(c, TRUE)
              /\ \E r \in table :
                    /\ RowsOfContent(c) = {r}
                    /\ r.embedding = Float32Array(FreshVector(c, TRUE))
                    /\ r.model_version = MODEL_NAME

\* Both calls missed, both inferred the content and both have returned.
C27_Witness ==
    /\ BothReturned
    /\ args[Caller].texts = args[Other].texts
    /\ \A p \in Pair : ~probes[p][1].hit
    /\ inferences[args[Caller].texts[1]] = 2
    /\ Float32Array(ret[Caller].val) # ret[Caller].val

\* C28: a step of getEmbeddingPipeline called with an observer changes the
\* loader's state and settles the call exactly as the same step of a call
\* without observer does from the same state; the loader without observers
\* being deterministic in its calls and initialization outcomes, the two
\* runs then agree after every step.
C28_ObserverTransparent ==
    [][\A p \in Procs :
          /\ (\E obs \in Observers : GetEmbeddingPipelineObserved(p, obs)) =>
                Acquire(p, "getEmbeddingPipeline")
          /\ InitSucceedObserved(p) =>
                /\ loadError' = loadError
                /\ ret'[p] = HandleRet(initOf[p])
          /\ InitFailObserved(p) =>
                /\ loadError' = initOf[p]
                /\ ret'[p] = ErrorRet(initOf[p])]_vars

\* C29: the loader is unloaded, loading, ready or failed: a handle and a
\* stored error are never both set, and while isLoading is true neither is.
C29_OneOfFourStates ==
    /\ ~(embeddingPipeline # NoHandle /\ loadError # NoError)
    /\ isLoading => (embeddingPipeline = NoHandle /\ loadError = NoError)

\* The construction caller p awaits was started before the last unloadModel().
Stale(p) == pc[p] = "loading" /\ initOf[p] < nextInit - lifetimeInits

\* C30: when a construction that was in flight at an unloadModel() call
\* settles, the loader's state stays as it is: no handle and no error is
\* stored and the loading flag of a newer construction is not cleared.
C30_StaleInitInert ==
    [][\A p \in Procs :
          (Stale(p) /\ pc'[p] # "loading") =>
              UNCHANGED <<embeddingPipeline, isLoading, loadError>>]_vars

\* C31: on a loaded model and with every inference call returning, a
\* generateEmbeddings call returns whatever its batchSize: once made, the
\* call eventually hands back its array, holding one vector per text.
C31_Terminates ==
    /\ [](ReturnedDirectBatch => Len(ret[Caller].val) = Len(args[Caller].texts))
    /\ (kind[Caller] = "generateEmbeddings") ~> ReturnedDirectBatch

====
